---- MODULE Spec2Model ----
(***************************************************************************)
(* Model of the VWAP signal engine: the signal classifier, the golden      *)
(* signal tracker (ledger) and the Telegram alert trigger of the           *)
(* DecisionBuyAi component, in its two revisions:                          *)
(*   revision 1  (part_001 lines 1-794):    an entry is closed when the    *)
(*               symbol stops being GOLDEN ("exit revision");              *)
(*   revision 2  (part_001 lines 795-1777): an entry is closed when its    *)
(*               gain reaches 4% ("take-profit revision"), with stats.     *)
(*                                                                         *)
(* Units.  Time is counted in slots of 10 minutes (the history sampling    *)
(* period), prices in hundredths (104.00 is 10400), profit percentages in  *)
(* hundredths of a percent (4% is 400), normalized slopes in hundredths    *)
(* (0.05 is 5).                                                            *)
(***************************************************************************)
EXTENDS Integers, Sequences, FiniteSets, TLC

VARIABLES
    listed,          \* the symbols the exchange lists, in feed order
    revision,        \* which revision of DecisionBuyAi runs (fixed in a run)
    now,             \* Date.now(), in slots since the start of the model
    tickers,         \* App state `tickers` (prop of DecisionBuyAi)
    vwapStore,       \* App state `vwapStore`: ticker id -> VwapData
    firstSeenTimes,  \* App state `firstSeenTimes`: ticker id -> timestamp
    trackedGoldens,  \* DecisionBuyAi state `trackedGoldens` (the ledger)
    localStorage,    \* the browser key-value store: key -> JSON text
    lastOp,          \* name of the operation that produced this state
    lastSaved,       \* history: argument of the last saveTrackedGoldens call
    peakPnl,         \* history: symbol -> highest pnl computed for its entry
    purged,          \* history: the last reconciliation dropped an entry
    tgConfig,        \* DecisionBuyAi state `tgConfig` (the Telegram settings)
    alertedRef,      \* alertedRef.current: symbols alerted as GOLDEN
    exitAlertedRef,  \* exitAlertedRef.current: symbols alerted as EXIT
    dispatched,      \* history: symbol -> calls of sendGoldenSignalAlert, type GOLDEN
    goldenRuns,      \* history: symbol -> runs of consecutive GOLDEN cycles so far
    runLength,       \* history: symbol -> length of its current GOLDEN run
    enabledThroughout, \* history: the alerts have been enabled in every cycle
    lastCalls,       \* history: the sendGoldenSignalAlert calls of the last handler
    delivery,        \* history: symbol -> kind and outcome of its latest call
    cache,           \* cexService module variable `cache`: the last good ticker list
    fetchers,        \* the fetchCexTickers calls in progress: caller -> position, result
    fetchClock,      \* Date.now() as cexService reads it, in units of 10 seconds
    response,        \* the body of a source's ticker response (raw records)
    parsed,          \* what the conversion of that body gave
    klines,          \* the daily candles fetchBinanceKlines returns for a symbol
    today,           \* the UTC day of Date.now(), in days since 1970-01-01
    vwapData,        \* what fetchWeeklyVwapData last returned
    stored,          \* a key of localStorage and the text found under it at load
    restored,        \* what the load function of that key returned
    writeFails,      \* localStorage.setItem throws (quota exceeded, storage denied)
    candidates,      \* App state tickers as the level effect sees it: which list, how long
    effects,         \* the runs of the level effect: captured list, cancelled, interval
    cycles,          \* the calls of fetchSignals: effect run, chunk offset i, position
    levelStore,      \* which cycle last called setVwapStore, and with how many levels
    dispatch,        \* a call of sendTelegramMessage: token, chat id text, requests made, result
    vwapCache,       \* cexService module variable vwapCache, for one symbol
    levelCalls,      \* the fetchWeeklyVwapData calls for that symbol: caller -> position, result
    sourceRequests,  \* the times at which the candle source was queried for the symbol
    ws,              \* the module's socket reference: 0 for null, else the rank of a socket
    sockets,         \* the WebSocket objects created so far, by rank: their readyState
    listeners,       \* the general listeners, in the order of their registration
    tickerSubscriptions, \* the callbacks subscribed to the one ticker of the model
    closures,        \* the unsubscribe functions returned and not yet called
    reconnects,      \* the reconnection timers armed by onclose and not yet fired
    delivered        \* the calls of each listener for the last update of the stream

alertVars == <<tgConfig, alertedRef, exitAlertedRef, dispatched, goldenRuns,
               runLength, enabledThroughout>>

serviceVars == <<lastCalls, delivery>>

fetchVars == <<cache, fetchers, fetchClock>>

dataVars == <<response, parsed, klines, today, vwapData, stored, restored>>

cycleVars == <<candidates, effects, cycles, levelStore>>

dispatchVars == <<dispatch>>

levelCacheVars == <<vwapCache, levelCalls, sourceRequests>>

socketVars == <<ws, sockets, listeners, tickerSubscriptions, closures, reconnects, delivered>>

vars == <<listed, revision, now, tickers, vwapStore, firstSeenTimes, trackedGoldens,
          localStorage, lastOp, lastSaved, peakPnl, purged, alertVars, serviceVars,
          dataVars, writeFails, fetchVars, cycleVars,
          dispatchVars,
          levelCacheVars,
          socketVars>>

----------------------------------------------------------------------------
(* Bounds of the model *)

\* The exchange lists either one symbol, with three prices and four instants,
\* or two symbols with one price each and three instants (listed is fixed
\* in a run); FeedOrder is the order of the feed, sorted by volume.
Listings == {<<"A">>, <<"A", "B">>}

\* the market of the alert runs: one symbol whose prices reach every signal kind
AlertListing == <<"C">>

\* the market of the history runs: one symbol at one price, followed for a day
HistoryListing == <<"H">>

FeedOrder == listed

Symbols == {listed[i] : i \in DOMAIN listed}

\* prices each symbol can quote (hundredths)
PricesOf(s) ==
    IF s = "C" THEN {9400, 9600, 10000}
    ELSE IF s = "H" THEN {10000}
    ELSE IF Len(listed) = 1 THEN {10000, 10399, 10400}
    ELSE IF s = "A" THEN {10000} ELSE {5000}

\* instants (slots of 10 minutes) at which something can happen
Instants ==
    IF listed = AlertListing THEN {1, 3}
    ELSE IF listed = HistoryListing THEN {1, 3, 144, 146}
    ELSE IF Len(listed) = 1 THEN {1, 3, 145, 146} ELSE {1, 3, 145}

StartTime == CHOOSE t \in Instants : \A u \in Instants : t <= u

\* callers of fetchCexTickers whose calls can overlap (the mount-time load
\* and the 60-second timer)
Callers == {1, 2}

\* the ticker fetches stop at this reading of the clock (units of 10 seconds)
MaxFetchClock == 4

\* reconciliations stop once an entry holds this many history points
MaxHistory == 2

\* reconciliations stop once this many signals have been counted
MaxTotalSignals == 3

\* alert cycles stop once a symbol has had this many runs of GOLDEN cycles
MaxRuns == 2

\* the length of a GOLDEN run is counted up to this many cycles
MaxRunLength == 3

----------------------------------------------------------------------------
(* Program constants *)

TRACKER_EXPIRY_MS == 144      \* 24 * 60 * 60 * 1000 ms = 144 slots
HISTORY_INTERVAL == 1         \* 10 * 60 * 1000 ms = 1 slot
HISTORY_LIMIT == 144          \* history.length < 144
TP_THRESHOLD == 400           \* pnl >= 4 (percent)
SLOPE_THRESHOLD == 5          \* normalizedSlope > 0.05 / < -0.05

GOLDEN_TRACKER_KEY == "dexpulse_golden_tracker"
STAT_KEY == "dexpulse_golden_stats"
RESET_TRACKER_KEY == "dexpulse_tracked_goldens"
CONFIG_KEY == "dexpulse_telegram_config"
\* 30_000 ms, in units of 10 seconds
CACHE_TTL == 3

ALERTED_KEY == "dexpulse_alerted_signals"

SLOTS_PER_DAY == 144          \* one UTC calendar day, in slots

----------------------------------------------------------------------------
(* Small helpers *)

Min(a, b) == IF a < b THEN a ELSE b
Max(a, b) == IF a > b THEN a ELSE b

Range(f) == {f[i] : i \in DOMAIN f}

\* Array.prototype.find / findIndex by symbol: index of the first match, 0 if none
FindIdx(seq, sym) ==
    IF \E i \in DOMAIN seq : seq[i].symbol = sym
    THEN CHOOSE i \in DOMAIN seq :
            /\ seq[i].symbol = sym
            /\ \A j \in DOMAIN seq : seq[j].symbol = sym => i <= j
    ELSE 0

\* object spread  { ...t, k1: v1, ... }
Spread(t, u) ==
    [k \in DOMAIN t \cup DOMAIN u |-> IF k \in DOMAIN u THEN u[k] ELSE t[k]]

----------------------------------------------------------------------------
(* Inputs: ticker lists and level sets *)

\* a quote assigns each symbol a price, or 0 when the feed does not list it
Quotes == {q \in [Symbols -> UNION {PricesOf(s) : s \in Symbols} \cup {0}] :
             \A s \in Symbols : q[s] \in PricesOf(s) \cup {0}}

TickerListOf(q) ==
    LET present == SelectSeq(FeedOrder, LAMBDA s : q[s] # 0)
    IN  [i \in 1..Len(present) |->
            [symbol |-> present[i], priceUsd |-> q[present[i]]]]

\* VwapData a level computation can give for a symbol.  The 15-minute closes
\* and the relative volume are read by revision 2 only.
LevelsOf(s) ==
    IF Len(listed) > 1
    THEN { IF s = "A"
           THEN [max |-> 9800, min |-> 9000, mid |-> 9500, normalizedSlope |-> 10,
                 last15mClose |-> 9900, prev15mClose |-> 9700, volumeRelative |-> 100]
           ELSE [max |-> 4900, min |-> 4500, mid |-> 4700, normalizedSlope |-> 10,
                 last15mClose |-> 4950, prev15mClose |-> 4800, volumeRelative |-> 100] }
    ELSE { [max |-> 9800, min |-> 9000, mid |-> 9500, normalizedSlope |-> 10,
            last15mClose |-> 9900, prev15mClose |-> 9700, volumeRelative |-> 100],
           [max |-> 9800, min |-> 9000, mid |-> 9500, normalizedSlope |-> -10,
            last15mClose |-> 9900, prev15mClose |-> 9900, volumeRelative |-> 100] }

----------------------------------------------------------------------------
(* Signal classifier *)

NoSignal == [type |-> "NONE"]

\* variant: any positive slope counts as a positive trend
AnyPositiveSlope(vwap) == vwap.normalizedSlope > 0

\* trend strength: vwap.normalizedSlope > 0.05
isVwapPositive(vwap) == vwap.normalizedSlope > SLOPE_THRESHOLD

\* revision 1: GOLDEN, then EXIT, then MOMENTUM, then SUPPORT
Classify1(t, vwap, seen, clock) ==
    LET price == t.priceUsd
        isVwapNegative == vwap.normalizedSlope < -SLOPE_THRESHOLD
        isPriceAboveMax == price > vwap.max
        base == [symbol |-> t.symbol, priceUsd |-> price,
                 vwapMax |-> vwap.max, vwapMid |-> vwap.mid]
        absDiff == IF price >= vwap.mid THEN price - vwap.mid ELSE vwap.mid - price
    IN  IF isPriceAboveMax /\ isVwapPositive(vwap)
        THEN Spread(base, [score |-> 9500 + Min(500, vwap.normalizedSlope * 20),
                           activeSince |-> IF t.symbol \in DOMAIN seen /\ seen[t.symbol] # 0
                                           THEN seen[t.symbol] ELSE clock,
                           type |-> "GOLDEN"])
        ELSE IF isVwapNegative
        THEN Spread(base, [score |-> 9000, activeSince |-> 0, type |-> "EXIT"])
        ELSE IF price > vwap.mid /\ price < vwap.max /\ isVwapPositive(vwap)
        THEN Spread(base, [score |-> 8500 + Min(1000, vwap.normalizedSlope * 10),
                           activeSince |-> 0, type |-> "MOMENTUM"])
        ELSE IF absDiff * 100 < 2 * vwap.mid /\ isVwapPositive(vwap)
        THEN Spread(base, [score |-> 8000, activeSince |-> 0, type |-> "SUPPORT"])
        ELSE NoSignal

\* the initial value of the component state sortBy
sortBy == "score"

\* the comparator of the signal sort: negative when a goes before b
CompareSignals(a, b) ==
    IF a.type = "EXIT" /\ b.type # "EXIT" THEN -1
    ELSE IF b.type = "EXIT" /\ a.type # "EXIT" THEN 1
    ELSE IF sortBy = "time" THEN b.activeSince - a.activeSince
    ELSE b.score - a.score

\* Array.prototype.sort is stable: insert after every element not behind sig
RECURSIVE SortSignals(_)
SortSignals(sigs) ==
    IF sigs = <<>> THEN <<>>
    ELSE LET n == Len(sigs)
             sig == sigs[n]
             done == SortSignals(SubSeq(sigs, 1, n - 1))
             k == Cardinality({i \in DOMAIN done : CompareSignals(done[i], sig) <= 0})
         IN  SubSeq(done, 1, k) \o <<sig>> \o SubSeq(done, k + 1, Len(done))

Signals1(tks, store, seen, clock) ==
    LET mapped == [i \in DOMAIN tks |->
                     IF tks[i].symbol \in DOMAIN store
                     THEN Classify1(tks[i], store[tks[i].symbol], seen, clock)
                     ELSE NoSignal]
    IN  SortSignals(SelectSeq(mapped, LAMBDA s : s.type # "NONE"))

\* revision 2: the callback of tickers.map returns null without levels, a GOLDEN
\* signal on a fresh 15-minute crossover with a positive trend, and otherwise
\* falls off its end (undefined)
Undefined == [type |-> "UNDEFINED"]

Classify2(t, vwap, seen, clock) ==
    LET lastClose == vwap.last15mClose
        isConfirmedNow == lastClose > vwap.max /\ lastClose > vwap.mid
        prevClose == vwap.prev15mClose
        wasConfirmedPrev == prevClose > vwap.max /\ prevClose > vwap.mid
        isFreshCrossover == isConfirmedNow /\ ~wasConfirmedPrev
        rvol == vwap.volumeRelative
        isNeuralAlpha == vwap.normalizedSlope > 10 /\ rvol > 120
        score0 == 9500 + Min(300, vwap.normalizedSlope * 10)
        score1 == IF rvol > 150 THEN score0 + 200 ELSE score0
        score2 == IF isNeuralAlpha THEN score1 + 200 ELSE score1
    IN  IF isFreshCrossover /\ isVwapPositive(vwap)
        THEN [symbol |-> t.symbol, priceUsd |-> t.priceUsd,
              vwapMax |-> vwap.max, vwapMid |-> vwap.mid,
              score |-> Min(10000, score2),
              activeSince |-> IF t.symbol \in DOMAIN seen /\ seen[t.symbol] # 0
                              THEN seen[t.symbol] ELSE clock,
              type |-> "GOLDEN"]
        ELSE Undefined

Mapped2(tks, store, seen, clock) ==
    [i \in DOMAIN tks |->
        IF tks[i].symbol \in DOMAIN store
        THEN Classify2(tks[i], store[tks[i].symbol], seen, clock)
        ELSE NoSignal]

\* the filter  s !== null && typeof s.activeSince === 'number'  reads a property
\* of undefined, and throws, when the map gave undefined for some ticker
SignalsThrow2(tks, store, seen, clock) ==
    \E s \in Range(Mapped2(tks, store, seen, clock)) : s.type = "UNDEFINED"

Signals2(tks, store, seen, clock) ==
    SelectSeq(Mapped2(tks, store, seen, clock), LAMBDA s : s.type = "GOLDEN")

----------------------------------------------------------------------------
(* localStorage and JSON *)

NoStorage == [k \in {} |-> <<>>]

HasItem(store, key) == key \in DOMAIN store

SetItem(store, key, raw) ==
    [k \in DOMAIN store \cup {key} |-> IF k = key THEN raw ELSE store[k]]

RemoveItem(store, key) == [k \in DOMAIN store \ {key} |-> store[k]]

\* JSON.stringify of one property value: the JSON text is modelled as the
\* value tagged with its JSON type; a property holding undefined is left out
BooleanKeys == {"stillActive", "wasActive", "wasCounted", "tpHit", "enabled"}

StringKeys == {"symbol", "botToken", "chatId", "date"}

JsonOfValue(k, v) ==
    IF k \in StringKeys THEN <<"string", v>>
    ELSE IF k \in BooleanKeys THEN <<"boolean", v>>
    ELSE IF k = "history" THEN <<"array", [i \in DOMAIN v |-> <<"number", v[i]>>]>>
    ELSE IF k = "ids" THEN <<"array", [i \in DOMAIN v |-> <<"string", v[i]>>]>>
    ELSE <<"number", v>>

JsonStringifyObject(obj) == [k \in DOMAIN obj |-> JsonOfValue(k, obj[k])]

JsonStringify(data) == [i \in DOMAIN data |-> JsonStringifyObject(data[i])]

JsonParseValue(j) ==
    IF j[1] = "array" THEN [i \in DOMAIN j[2] |-> j[2][i][2]] ELSE j[2]

JsonParseObject(text) == [k \in DOMAIN text |-> JsonParseValue(text[k])]

JsonParse(raw) == [i \in DOMAIN raw |-> JsonParseObject(raw[i])]

----------------------------------------------------------------------------
(* The persisted records *)

\* variants of the expiry test: the boundary kept, and no expiry at all
ExpiredAfterWindow(t, clock) == clock - t.signalTime <= TRACKER_EXPIRY_MS

NeverExpired(t, clock) == TRUE

NotExpired(t, clock) == clock - t.signalTime < TRACKER_EXPIRY_MS

\* variant: the ledger read under the key handleResetTracker removes
loadFromResetKey(store, clock) ==
    IF ~HasItem(store, RESET_TRACKER_KEY) THEN <<>>
    ELSE SelectSeq(JsonParse(store[RESET_TRACKER_KEY]),
                   LAMBDA t : clock - t.signalTime < TRACKER_EXPIRY_MS)

loadTrackedGoldens(store, clock) ==
    IF ~HasItem(store, GOLDEN_TRACKER_KEY) THEN <<>>
    ELSE SelectSeq(JsonParse(store[GOLDEN_TRACKER_KEY]),
                   LAMBDA t : NotExpired(t, clock))

saveTrackedGoldens(store, data, clock) ==
    SetItem(store, GOLDEN_TRACKER_KEY,
            JsonStringify(SelectSeq(data, LAMBDA t : NotExpired(t, clock))))

DefaultStats == [totalSignals |-> 0, successCount |-> 0, successRate |-> 0, avgGain |-> 0]

loadGoldenStats(store) ==
    IF HasItem(store, STAT_KEY) THEN JsonParseObject(store[STAT_KEY]) ELSE DefaultStats

\* variant: the default counters saved instead of the updated ones
saveDefaultStats(store, stats) == SetItem(store, STAT_KEY, JsonStringifyObject(DefaultStats))

saveGoldenStats(store, stats) == SetItem(store, STAT_KEY, JsonStringifyObject(stats))

----------------------------------------------------------------------------
(* Golden signal tracker *)

\* JavaScript truthiness of t.exitTime
HasExit(t) == "exitTime" \in DOMAIN t /\ t.exitTime # 0

\* ((currentPrice - entryPrice) / entryPrice) * 100, in hundredths of a percent
Pnl(currentPrice, entryPrice) == ((currentPrice - entryPrice) * 10000) \div entryPrice

\* variant: a point at every reconciliation
AlwaysAddPoint(t, clock) == Len(t.history) < HISTORY_LIMIT

\* history.length < 144 and more than 10 minutes since the slot of the last point
shouldAddPoint(t, clock) ==
    /\ Len(t.history) < HISTORY_LIMIT
    /\ clock - (t.signalTime + (Len(t.history) - 1) * HISTORY_INTERVAL) > HISTORY_INTERVAL

\* variant: the last gain instead of the highest
LastGain(t, pnl) == pnl

\* Math.max(t.maxGainPct, pnl)
NewMaxGain(t, pnl) == Max(t.maxGainPct, pnl)

\* variant: the entry priced at the weekly max it broke through
NewEntryAtMax(sig, clock) ==
    [symbol |-> sig.symbol,
     entryPrice |-> sig.vwapMax,
     signalTime |-> IF sig.activeSince # 0 THEN sig.activeSince ELSE clock,
     maxPrice |-> sig.priceUsd,
     maxGainPct |-> 0,
     lastPrice |-> sig.priceUsd,
     stillActive |-> TRUE,
     wasActive |-> TRUE,
     history |-> <<sig.priceUsd>>]

NewEntry1(sig, clock) ==
    [symbol |-> sig.symbol,
     entryPrice |-> sig.priceUsd,
     signalTime |-> IF sig.activeSince # 0 THEN sig.activeSince ELSE clock,
     maxPrice |-> sig.priceUsd,
     maxGainPct |-> 0,
     lastPrice |-> sig.priceUsd,
     stillActive |-> TRUE,
     wasActive |-> TRUE,
     history |-> <<sig.priceUsd>>]

NewEntry2(sig, clock) ==
    Spread(NewEntry1(sig, clock), [wasCounted |-> TRUE, tpHit |-> FALSE])

\* variant: an inactive entry re-activated whether closed or not
ReactivateClosed(t) ==
    IF ~t.stillActive
    THEN [t EXCEPT !.stillActive = TRUE, !.wasActive = TRUE]
    ELSE t

\* step 1 of the tracker: add the golden signals not yet tracked, re-activate
\* an entry that is neither active nor closed
ReactivateEntry(t) ==
    IF ~t.stillActive /\ ~HasExit(t)
    THEN [t EXCEPT !.stillActive = TRUE, !.wasActive = TRUE]
    ELSE t

\* variant: the entry pushed without looking for an existing one
PushGolden(updated, entry) == Append(updated, entry)

AddOneGolden(updated, entry) ==
    LET i == FindIdx(updated, entry.symbol)
    IN  IF i = 0 THEN Append(updated, entry)
        ELSE [updated EXCEPT ![i] = ReactivateEntry(@)]

RECURSIVE AddGoldens(_, _, _, _)
AddGoldens(rev, updated, goldenSignals, clock) ==
    IF goldenSignals = <<>> THEN updated
    ELSE LET sig == Head(goldenSignals)
             entry == IF rev = 1 THEN NewEntry1(sig, clock) ELSE NewEntry2(sig, clock)
         IN  AddGoldens(rev, AddOneGolden(updated, entry), Tail(goldenSignals), clock)

\* step 2, revision 1: an active entry whose symbol is no longer GOLDEN is closed
UpdateTracked1(t, tks, goldenSymbols, clock) ==
    IF HasExit(t) THEN t
    ELSE LET i == FindIdx(tks, t.symbol) IN
         IF i = 0 THEN t
         ELSE LET isCurrentlyGolden == t.symbol \in goldenSymbols
                  currentPrice == tks[i].priceUsd
                  pnl == Pnl(currentPrice, t.entryPrice)
              IN  IF t.stillActive /\ ~isCurrentlyGolden
                  THEN Spread(t, [lastPrice |-> currentPrice,
                                  stillActive |-> FALSE,
                                  exitPrice |-> currentPrice,
                                  exitTime |-> clock,
                                  realizedPnl |-> pnl,
                                  maxPrice |-> Max(t.maxPrice, currentPrice),
                                  maxGainPct |-> NewMaxGain(t, pnl)])
                  ELSE Spread(t, [lastPrice |-> currentPrice,
                                  maxPrice |-> Max(t.maxPrice, currentPrice),
                                  maxGainPct |-> NewMaxGain(t, pnl),
                                  stillActive |-> isCurrentlyGolden,
                                  history |-> IF shouldAddPoint(t, clock)
                                              THEN Append(t.history, currentPrice)
                                              ELSE t.history])

\* step 2, revision 2: an active entry whose gain reached 4% is closed by the
\* first test; the isHittingTp tests after it repeat its condition
isHittingTp(t, pnl) == pnl >= TP_THRESHOLD /\ t.stillActive

UpdateTracked2(t, tks, goldenSymbols, clock) ==
    IF HasExit(t) THEN t
    ELSE LET i == FindIdx(tks, t.symbol) IN
         IF i = 0 THEN t
         ELSE LET isCurrentlyGolden == t.symbol \in goldenSymbols
                  currentPrice == tks[i].priceUsd
                  pnl == Pnl(currentPrice, t.entryPrice)
                  newMax == Max(t.maxPrice, currentPrice)
                  newMaxGain == NewMaxGain(t, pnl)
                  history == IF shouldAddPoint(t, clock)
                             THEN Append(t.history, currentPrice)
                             ELSE t.history
              IN  IF t.stillActive /\ pnl >= TP_THRESHOLD
                  THEN Spread(t, [lastPrice |-> currentPrice,
                                  stillActive |-> FALSE,
                                  exitPrice |-> currentPrice,
                                  exitTime |-> clock,
                                  realizedPnl |-> pnl,
                                  maxPrice |-> Max(t.maxPrice, currentPrice),
                                  maxGainPct |-> NewMaxGain(t, pnl)])
                  ELSE IF isHittingTp(t, pnl)
                  THEN Spread(t, [lastPrice |-> currentPrice,
                                  stillActive |-> FALSE,
                                  exitPrice |-> currentPrice,
                                  exitTime |-> clock,
                                  realizedPnl |-> pnl,
                                  maxPrice |-> newMax,
                                  maxGainPct |-> newMaxGain,
                                  history |-> history,
                                  tpHit |-> TRUE])
                  ELSE Spread(t, [lastPrice |-> currentPrice,
                                  maxPrice |-> newMax,
                                  maxGainPct |-> newMaxGain,
                                  stillActive |-> t.stillActive \/ isCurrentlyGolden,
                                  history |-> history,
                                  tpHit |-> t.tpHit])

\* stats.successCount++ of revision 2: reached for an entry that passes the
\* exitTime, ticker and first take-profit tests and then has isHittingTp
CountsSuccess(t, tks) ==
    /\ ~HasExit(t)
    /\ FindIdx(tks, t.symbol) # 0
    /\ LET pnl == Pnl(tks[FindIdx(tks, t.symbol)].priceUsd, t.entryPrice)
       IN  /\ ~(t.stillActive /\ pnl >= TP_THRESHOLD)
           /\ isHittingTp(t, pnl)
           /\ ~t.tpHit

\* variant: an open entry whose symbol left the ticker list is closed at its
\* last price
UpdateClosingMissing(rev, t, tks, goldenSymbols, clock) ==
    IF ~HasExit(t) /\ FindIdx(tks, t.symbol) = 0
    THEN Spread(t, [stillActive |-> FALSE,
                    exitPrice |-> t.lastPrice,
                    exitTime |-> clock,
                    realizedPnl |-> Pnl(t.lastPrice, t.entryPrice)])
    ELSE IF rev = 1 THEN UpdateTracked1(t, tks, goldenSymbols, clock)
    ELSE UpdateTracked2(t, tks, goldenSymbols, clock)

\* variant: a closed entry follows the price of its ticker like an open one
UpdateClosedToo(rev, t, tks, goldenSymbols, clock) ==
    IF HasExit(t) /\ FindIdx(tks, t.symbol) # 0
    THEN [t EXCEPT !.lastPrice = tks[FindIdx(tks, t.symbol)].priceUsd]
    ELSE IF rev = 1 THEN UpdateTracked1(t, tks, goldenSymbols, clock)
    ELSE UpdateTracked2(t, tks, goldenSymbols, clock)

UpdateTracked(rev, t, tks, goldenSymbols, clock) ==
    IF rev = 1 THEN UpdateTracked1(t, tks, goldenSymbols, clock)
    ELSE UpdateTracked2(t, tks, goldenSymbols, clock)

\* the updater passed to setTrackedGoldens: steps 1 to 3 and the stats
Tracker(rev, prev, sigs, tks, store, clock) ==
    LET goldenSignals == SelectSeq(sigs, LAMBDA s : s.type = "GOLDEN")
        goldenSymbols == {goldenSignals[i].symbol : i \in DOMAIN goldenSignals}
        stats0 == loadGoldenStats(store)
        added == AddGoldens(rev, prev, goldenSignals, clock)
        created == Len(added) - Len(prev)
        mapped == [i \in DOMAIN added |->
                     UpdateTracked(rev, added[i], tks, goldenSymbols, clock)]
        hits == Cardinality({i \in DOMAIN added : CountsSuccess(added[i], tks)})
        stats == [stats0 EXCEPT !.totalSignals = @ + created,
                                !.successCount = @ + hits]
        statsChanged == created > 0 \/ hits > 0
        store1 == IF rev = 2 /\ statsChanged THEN saveGoldenStats(store, stats) ELSE store
        updated == SelectSeq(mapped, LAMBDA t : NotExpired(t, clock))
    IN  [updated |-> updated,
         added |-> added,
         mapped |-> mapped,
         store |-> saveTrackedGoldens(store1, updated, clock)]

----------------------------------------------------------------------------
(* Telegram alert trigger *)

DefaultConfig == [botToken |-> "", chatId |-> "", enabled |-> FALSE]

loadTelegramConfig(store) ==
    IF HasItem(store, CONFIG_KEY) THEN JsonParseObject(store[CONFIG_KEY]) ELSE DefaultConfig

saveTelegramConfig(store, config) == SetItem(store, CONFIG_KEY, JsonStringifyObject(config))

\* new Date().toISOString().slice(0, 10): the UTC calendar day of an instant,
\* days numbered from the one that holds slot 0
Today(clock) == clock \div SLOTS_PER_DAY

\* getAlertedToday: the ids recorded for today; a record of another day is
\* removed from the store
getAlertedToday(store, clock) ==
    IF ~HasItem(store, ALERTED_KEY) THEN [ids |-> <<>>, store |-> store]
    ELSE LET data == JsonParseObject(store[ALERTED_KEY]) IN
         IF data.date # Today(clock)
         THEN [ids |-> <<>>, store |-> RemoveItem(store, ALERTED_KEY)]
         ELSE [ids |-> data.ids, store |-> store]

\* new Set(ids).add(symbol), spread back into an array
SetAdd(ids, symbol) ==
    IF \E i \in DOMAIN ids : ids[i] = symbol THEN ids ELSE Append(ids, symbol)

markAlerted(store, symbol, clock) ==
    LET alerted == getAlertedToday(store, clock)
    IN  SetItem(alerted.store, ALERTED_KEY,
                JsonStringifyObject([date |-> Today(clock),
                                     ids |-> SetAdd(alerted.ids, symbol)]))

wasAlertedToday(store, symbol, clock) ==
    \E i \in DOMAIN getAlertedToday(store, clock).ids :
        getAlertedToday(store, clock).ids[i] = symbol

\* parseChatIds: split on commas, trim, drop the empty pieces; the settings
\* of the model hold no id (",") or one ("chat")
parseChatIds(chatIdStr) ==
    IF chatIdStr \in {"", ","} THEN <<>> ELSE <<chatIdStr>>

\* sendTelegramMessage: nothing is posted without a token and a recipient;
\* accepted says whether at least one recipient accepted the message
sendTelegramMessage(config, accepted) ==
    IF config.botToken = "" \/ config.chatId = ""
    THEN [posted |-> FALSE, ok |-> FALSE]
    ELSE IF parseChatIds(config.chatId) = <<>>
    THEN [posted |-> FALSE, ok |-> FALSE]
    ELSE [posted |-> TRUE, ok |-> accepted]

\* The same dispatch recipient by recipient.  The chat id text is a sequence
\* of characters: commas, blanks and the letters of the ids.
ChatIdChars == {",", " ", "a", "b"}

MaxChatIdLen == 4

ChatIdTexts == UNION {[1..n -> ChatIdChars] : n \in 0..MaxChatIdLen}

\* chatIdStr.split(','): the pieces between the commas, at least one
RECURSIVE split(_)
split(chars) ==
    IF chars = <<>> THEN <<(<<>>)>>
    ELSE LET rest == split(Tail(chars))
         IN  IF Head(chars) = "," THEN <<(<<>>)>> \o rest
             ELSE <<(<<Head(chars)>> \o Head(rest))>> \o Tail(rest)

\* id.trim(): the blanks at both ends removed
RECURSIVE trimStart(_)
trimStart(chars) ==
    IF chars # <<>> /\ Head(chars) = " " THEN trimStart(Tail(chars)) ELSE chars

RECURSIVE trimEnd(_)
trimEnd(chars) ==
    IF chars # <<>> /\ chars[Len(chars)] = " "
    THEN trimEnd(SubSeq(chars, 1, Len(chars) - 1)) ELSE chars

trim(chars) == trimEnd(trimStart(chars))

\* parseChatIds over the characters: split, trim, drop the empty ids
chatIdsOf(chars) ==
    LET pieces == split(chars)
        trimmed == [i \in DOMAIN pieces |-> trim(pieces[i])]
    IN  SelectSeq(trimmed, LAMBDA id : Len(id) > 0)

\* what the request of one sendToChat can meet: the API accepts (data.ok is
\* true), the API refuses, fetch or res.json() throws
ChatOutcomes == {"ok", "refused", "error"}

\* sendToChat: true only when the API accepted; an error is caught
sendToChat(outcome) == outcome = "ok"

\* variant: every recipient must accept
AllAccepted(results) == \A i \in DOMAIN results : results[i]

\* results.some(ok => ok)
AnyAccepted(results) == \E i \in DOMAIN results : results[i]

NoRequests == [done |-> TRUE, requests |-> <<>>, results |-> <<>>, ok |-> FALSE]

\* sendTelegramMessage with the outcome each request meets: the requests
\* made, the value of each sendToChat, the value returned
sendToAll(botToken, chars, outcomes) ==
    IF botToken = "" \/ chars = <<>> THEN NoRequests
    ELSE LET chatIds == chatIdsOf(chars)
             results == [i \in DOMAIN chatIds |-> sendToChat(outcomes[i])]
         IN  IF Len(chatIds) = 0 THEN NoRequests
             ELSE [done |-> TRUE, requests |-> chatIds, results |-> results,
                   ok |-> AnyAccepted(results)]

NoDispatch == [done |-> FALSE, requests |-> <<>>, results |-> <<>>, ok |-> FALSE]

IdleDispatch == dispatch = [botToken |-> "", chatId |-> <<>>, call |-> NoDispatch]

\* sendTestAlert / sendGoldenSignalAlert reach sendTelegramMessage
Dispatch ==
    /\ ~dispatch.call.done
    /\ \E outcomes \in [1..Len(chatIdsOf(dispatch.chatId)) -> ChatOutcomes] :
          dispatch' = [dispatch EXCEPT
                         !.call = sendToAll(dispatch.botToken, dispatch.chatId, outcomes)]
    /\ lastOp' = "dispatch"
    /\ UNCHANGED <<listed, revision, now, tickers, vwapStore, firstSeenTimes,
                   trackedGoldens, localStorage, lastSaved, peakPnl, purged, alertVars,
                   serviceVars, fetchVars, dataVars, writeFails, cycleVars,
                   levelCacheVars, socketVars>>

\* the same settings are used for another message
NextMessage ==
    /\ dispatch.call.done
    /\ dispatch' = [dispatch EXCEPT !.call = NoDispatch]
    /\ lastOp' = "message"
    /\ UNCHANGED <<listed, revision, now, tickers, vwapStore, firstSeenTimes,
                   trackedGoldens, localStorage, lastSaved, peakPnl, purged, alertVars,
                   serviceVars, fetchVars, dataVars, writeFails, cycleVars,
                   levelCacheVars, socketVars>>

\* variant: no allow-list
AnyType(type) == TRUE

\* the allow-list of sendGoldenSignalAlert
IsAllowedType(type) == type \in {"GOLDEN", "CONVERGENCE", "EXIT"}

\* sendGoldenSignalAlert: the store it leaves, whether a message was posted,
\* the value returned and whether the symbol was marked
sendGoldenSignalAlert(store, symbol, type, accepted, clock) ==
    LET config == loadTelegramConfig(store)
        none == [store |-> store, posted |-> FALSE, sent |-> FALSE, marked |-> FALSE]
        res == sendTelegramMessage(config, accepted)
    IN  IF ~IsAllowedType(type) THEN none
        ELSE IF ~config.enabled \/ config.botToken = "" \/ config.chatId = "" THEN none
        ELSE [store |-> IF res.ok THEN markAlerted(store, symbol, clock) ELSE store,
              posted |-> res.posted,
              sent |-> res.ok,
              marked |-> res.ok]

\* the calls of one handler, in order, each with the outcome of its delivery
RECURSIVE DeliverCalls(_, _, _, _)
DeliverCalls(st, calls, accepted, clock) ==
    IF calls = <<>> THEN st
    ELSE LET symbol == Head(calls)[1]
             type == Head(calls)[2]
             r == sendGoldenSignalAlert(st.store, symbol, type, Head(accepted), clock)
         IN  DeliverCalls([store |-> r.store,
                           log |-> Append(st.log, [symbol |-> symbol, type |-> type,
                                                   posted |-> r.posted, sent |-> r.sent,
                                                   marked |-> r.marked])],
                          Tail(calls), Tail(accepted), clock)

\* the state the effect works on: the two sets and the calls of
\* sendGoldenSignalAlert made so far, each a pair <<symbol, type>>
AlertGolden(st, symbol) ==
    IF symbol \notin st.alerted
    THEN [alerted |-> st.alerted \cup {symbol},
          exitAlerted |-> st.exitAlerted \ {symbol},
          calls |-> Append(st.calls, <<symbol, "GOLDEN">>)]
    ELSE st

AlertExit(st, symbol) ==
    IF symbol \notin st.exitAlerted
    THEN [alerted |-> st.alerted \ {symbol},
          exitAlerted |-> st.exitAlerted \cup {symbol},
          calls |-> Append(st.calls, <<symbol, "EXIT">>)]
    ELSE st

AlertOther(st, symbol) == [st EXCEPT !.alerted = @ \ {symbol}]

\* the body of signals.forEach: revision 2 has the GOLDEN branch only
AlertOne(rev, st, sig) ==
    IF sig.type = "GOLDEN" THEN AlertGolden(st, sig.symbol)
    ELSE IF rev = 2 THEN st
    ELSE IF sig.type = "EXIT" THEN AlertExit(st, sig.symbol)
    ELSE AlertOther(st, sig.symbol)

RECURSIVE AlertEach(_, _, _)
AlertEach(rev, st, sigs) ==
    IF sigs = <<>> THEN st
    ELSE AlertEach(rev, AlertOne(rev, st, Head(sigs)), Tail(sigs))

\* variant: the cleanup left out
KeepMarks(ref, allActiveSymbols) == ref

\* cleanup: the symbols that fell out of the signals lose their mark
Cleanup(ref, allActiveSymbols) == ref \cap allActiveSymbols

\* the alert effect; revision 2 has no exitAlertedRef to clean
AlertEffect(rev, config, sigs, alerted, exitAlerted) ==
    LET st0 == [alerted |-> alerted, exitAlerted |-> exitAlerted, calls |-> <<>>]
        allActiveSymbols == {sigs[i].symbol : i \in DOMAIN sigs}
        st == AlertEach(rev, st0, sigs)
    IN  IF ~config.enabled THEN st0
        ELSE [alerted |-> Cleanup(st.alerted, allActiveSymbols),
              exitAlerted |-> IF rev = 1 THEN Cleanup(st.exitAlerted, allActiveSymbols)
                              ELSE st.exitAlerted,
              calls |-> st.calls]

----------------------------------------------------------------------------
(* History variables of the tracker *)

LowestPnl == 0 - 10001

HasEntry(list, s) == \E i \in DOMAIN list : list[i].symbol = s

SetMax(S) == CHOOSE x \in S : \A y \in S : y <= x

\* the pnl values step 2 computes in this reconciliation for the entries of s
ComputedPnl(added, tks, s) ==
    {Pnl(tks[FindIdx(tks, s)].priceUsd, added[i].entryPrice) :
        i \in {j \in DOMAIN added : /\ added[j].symbol = s
                                    /\ ~HasExit(added[j])
                                    /\ FindIdx(tks, s) # 0}}

NextPeak(prev, r, tks, s) ==
    IF ~HasEntry(r.updated, s) THEN LowestPnl
    ELSE SetMax({IF HasEntry(prev, s) THEN peakPnl[s] ELSE LowestPnl}
                \cup ComputedPnl(r.added, tks, s))

----------------------------------------------------------------------------
(* Operations *)

Signals(rev, tks, store, seen, clock) ==
    IF rev = 1 THEN Signals1(tks, store, seen, clock)
    ELSE Signals2(tks, store, seen, clock)

WithinBounds(r) ==
    /\ \A i \in DOMAIN r.updated :
          Len(r.updated[i].history) <=
              IF listed = HistoryListing THEN HISTORY_LIMIT ELSE MaxHistory
    /\ loadGoldenStats(r.store).totalSignals <= MaxTotalSignals

\* the tracker effect: runs after a render in which signals or tickers changed.
\* saveGoldenStats and saveTrackedGoldens call localStorage.setItem with no
\* try around it: when setItem throws, the state updater throws, the update
\* is lost and the component dies.
RunTracker(tks, store, seen, ls) ==
    LET sigs == Signals(revision, tks, store, seen, now)
        r == Tracker(revision, trackedGoldens, sigs, tks, ls, now)
    IN  IF writeFails
        THEN /\ localStorage' = localStorage
             /\ UNCHANGED <<trackedGoldens, lastSaved, peakPnl, purged, dispatchVars, levelCacheVars, socketVars>>
        ELSE /\ WithinBounds(r)
             /\ trackedGoldens' = r.updated
             /\ localStorage' = r.store
             /\ lastSaved' = r.updated
             /\ peakPnl' = [s \in Symbols |-> NextPeak(trackedGoldens, r, tks, s)]
             /\ purged' = (Len(r.updated) < Len(r.mapped))

IsGolden(sigs, s) ==
    \E i \in DOMAIN sigs : sigs[i].symbol = s /\ sigs[i].type = "GOLDEN"

GoldenCalls(calls, s) == Cardinality({i \in DOMAIN calls : calls[i] = <<s, "GOLDEN">>})

NoCount == [s \in Symbols |-> 0]

\* the alert effect: runs after a render in which signals or tgConfig.enabled
\* changed.  The history variables count while the alerts have always been on.
RunAlerts(sigs, config, alerted, exitAlerted) ==
    LET r == AlertEffect(revision, config, sigs, alerted, exitAlerted)
        counted == enabledThroughout /\ config.enabled
        runs == [s \in Symbols |->
                    IF IsGolden(sigs, s) /\ runLength[s] = 0
                    THEN goldenRuns[s] + 1 ELSE goldenRuns[s]]
    IN  /\ alertedRef' = r.alerted
        /\ exitAlertedRef' = r.exitAlerted
        /\ enabledThroughout' = counted
        /\ IF counted
           THEN /\ \A s \in Symbols : runs[s] <= MaxRuns
                /\ goldenRuns' = runs
                /\ runLength' = [s \in Symbols |->
                                   IF IsGolden(sigs, s)
                                   THEN Min(MaxRunLength, runLength[s] + 1) ELSE 0]
                /\ dispatched' = [s \in Symbols |->
                                    dispatched[s] + GoldenCalls(r.calls, s)]
           ELSE /\ goldenRuns' = NoCount
                /\ runLength' = NoCount
                /\ dispatched' = NoCount

----------------------------------------------------------------------------
(* cexService: the conversion of a ticker response *)

\* the parts parseFloat cannot read give NaN
NaN == 0 - 1

STABLECOINS ==
    {"USDT", "USDC", "BUSD", "DAI", "FDUSD", "TUSD", "EUR", "TRY", "GBP",
     "USDP", "XUSD", "USDE", "USDS", "VAI", "AEUR", "ZAR", "UAH", "PLN", "RON", "USD1"}

isStable(symbol) == symbol \in STABLECOINS

\* .slice(0, 250)
TOP_TICKERS == 250

\* A raw record of a response.  hasSymbol is false for a record without a
\* symbol string (null, {}, a number); base and quote are the two parts of
\* the pair name; lastPrice and quoteVolume are what parseFloat reads, NaN
\* when the field is absent or not a number.
RawRecord(hasSymbol, base, quote, lastPrice, quoteVolume) ==
    [hasSymbol |-> hasSymbol, base |-> base, quote |-> quote,
     lastPrice |-> lastPrice, quoteVolume |-> quoteVolume]

RawRecords ==
    { RawRecord(TRUE, "A", "USDT", 10000, 2),
      RawRecord(TRUE, "B", "USDT", 5000, 3),
      RawRecord(TRUE, "A", "BTC", 2, 9),
      RawRecord(TRUE, "USDC", "USDT", 100, 8),
      RawRecord(TRUE, "C", "USDT", NaN, 1),
      RawRecord(FALSE, "", "", NaN, NaN) }

\* the longest response body of the model
MaxBody == 3

Bodies == UNION {[1..n -> RawRecords] : n \in 0..MaxBody}

\* a record every field of which the conversion can read
WellFormed(t) == t.hasSymbol /\ t.lastPrice # NaN /\ t.quoteVolume # NaN

\* t.symbol.endsWith('USDT') throws on a record without a symbol string
FilterThrows(data) == \E i \in DOMAIN data : ~data[i].hasSymbol

\* .filter(t => t.symbol.endsWith('USDT'))
IsUsdtPair(t) == t.quote = "USDT"

\* the body of .map: null for a stablecoin
ToTicker(t, exchange) ==
    [symbol |-> t.base, priceUsd |-> t.lastPrice, volume24h |-> t.quoteVolume,
     exchange |-> exchange]

\* .sort((a, b) => b.volume24h - a.volume24h): stable, by falling volume
RECURSIVE InsertByVolume(_, _)
InsertByVolume(sorted, t) ==
    IF sorted = <<>> THEN <<t>>
    ELSE IF Head(sorted).volume24h >= t.volume24h
         THEN <<Head(sorted)>> \o InsertByVolume(Tail(sorted), t)
         ELSE <<t>> \o sorted

RECURSIVE SortByVolume(_)
SortByVolume(list) ==
    IF list = <<>> THEN <<>>
    ELSE InsertByVolume(SortByVolume(SubSeq(list, 1, Len(list) - 1)), list[Len(list)])

\* the chain filter / map / filter / sort / slice of fetchCexTickers and
\* fetchKuCoinTickers; threw says that the chain raised, which the caller's
\* catch turns into the failure of the source
ConvertTickers(data, exchange) ==
    IF FilterThrows(data) THEN [threw |-> TRUE, tickers |-> <<>>]
    ELSE LET pairs == SelectSeq(data, IsUsdtPair)
             kept == SelectSeq(pairs, LAMBDA t : ~isStable(t.base))
             mapped == [i \in 1..Len(kept) |-> ToTicker(kept[i], exchange)]
             sorted == SortByVolume(mapped)
         IN  [threw |-> FALSE,
              tickers |-> SubSeq(sorted, 1, Min(Len(sorted), TOP_TICKERS))]

NotParsed == [threw |-> FALSE, tickers |-> <<>>, exchange |-> "none"]

Exchanges == {"Binance", "KuCoin"}

\* a source answers with a body and the conversion runs on it
ParseResponse ==
    /\ lastOp = "load"
    /\ \E exchange \in Exchanges :
          parsed' = [threw |-> ConvertTickers(response, exchange).threw,
                     tickers |-> ConvertTickers(response, exchange).tickers,
                     exchange |-> exchange]
    /\ lastOp' = "parse"
    /\ UNCHANGED <<listed, revision, now, tickers, vwapStore, firstSeenTimes,
                   trackedGoldens, localStorage, lastSaved, peakPnl, purged, alertVars,
                   serviceVars, fetchVars, response, klines, today, vwapData, stored,
                   restored,
                   writeFails, cycleVars, dispatchVars, levelCacheVars,
                   socketVars>>

----------------------------------------------------------------------------
(* cexService: fetchWeeklyVwapData, the levels of a symbol from its daily
   candles.  A candle's time is the UTC day it opens, in days since
   1970-01-01; prices are in hundredths; the ATR is kept as the sum of the
   last 14 true ranges (14 times the ATR); normalizedSlope is in hundredths. *)

\* fetchWeeklyVwapData returned null
NotComputed == [computed |-> FALSE]

\* if (klines.length < 15) return null
MIN_KLINES == 15

SLOPE_LOOKBACK == 10

ATR_LENGTH == 14

Abs(x) == IF x < 0 THEN 0 - x ELSE x

\* now.getUTCDay(): 0 is Sunday; 1970-01-01 was a Thursday
getUTCDay(day) == (day + 4) % 7

\* the day of Monday 00:00 UTC as the code computes it
mondayTs(day) ==
    LET dayOfWeek == getUTCDay(day)
        diffToMonday == IF dayOfWeek = 0 THEN 6 ELSE dayOfWeek - 1
    IN  day - diffToMonday

\* k.volume > 0 ? k.quoteVolume / k.volume : (k.high + k.low + k.close) / 3
DailyVwap(k) ==
    IF k.volume > 0 THEN k.quoteVolume \div k.volume
    ELSE (k.high + k.low + k.close) \div 3

\* variant: every candle counts as completed
AnyCandle(list, index) == TRUE

\* index < klines.length - 1 (indices from 1 here)
isCompletedDay(list, index) == index < Len(list)

\* variant: the week starts on Sunday
SinceSunday(k, day) == k.time >= mondayTs(day) - 1

\* k.time >= mondayTs
isSinceMonday(k, day) == k.time >= mondayTs(day)

\* the forEach over the candles: wMax and wMin start at -Infinity and
\* Infinity (any is false) and follow the qualifying candles
RECURSIVE WeeklyFold(_, _, _, _)
WeeklyFold(acc, list, index, day) ==
    IF index > Len(list) THEN acc
    ELSE LET dailyVwap == DailyVwap(list[index])
             counts == isSinceMonday(list[index], day) /\ isCompletedDay(list, index)
             next == IF ~counts THEN acc
                     ELSE [any |-> TRUE,
                           wMax |-> IF ~acc.any \/ dailyVwap > acc.wMax
                                    THEN dailyVwap ELSE acc.wMax,
                           wMin |-> IF ~acc.any \/ dailyVwap < acc.wMin
                                    THEN dailyVwap ELSE acc.wMin]
         IN  WeeklyFold(next, list, index + 1, day)

\* trueRanges[i]
TrueRange(list, i) ==
    IF i = 1 THEN list[i].high - list[i].low
    ELSE Max(list[i].high - list[i].low,
             Max(Abs(list[i].high - list[i - 1].close),
                 Abs(list[i].low - list[i - 1].close)))

RECURSIVE SumTrueRanges(_, _, _)
SumTrueRanges(list, from, to) ==
    IF from > to THEN 0
    ELSE TrueRange(list, from) + SumTrueRanges(list, from + 1, to)

\* 14 times currentAtr: the sum of the last 14 true ranges, 0 with fewer
currentAtr14(list) ==
    IF Len(list) >= ATR_LENGTH
    THEN SumTrueRanges(list, Len(list) - ATR_LENGTH + 1, Len(list))
    ELSE 0

\* variant: the division done whatever the ATR (0 / 0 is NaN)
UnguardedSlope(slope, atr14) ==
    IF atr14 = 0 THEN NaN ELSE (slope * ATR_LENGTH * 100) \div atr14

\* currentAtr > 0 ? slope / currentAtr : 0
NormalizedSlope(slope, atr14) ==
    IF atr14 > 0 THEN (slope * ATR_LENGTH * 100) \div atr14 ELSE 0

\* fetchWeeklyVwapData after its cache check, on the candles the source
\* returned
WeeklyVwapData(list, day) ==
    IF Len(list) < MIN_KLINES THEN NotComputed
    ELSE LET acc == WeeklyFold([any |-> FALSE, wMax |-> 0, wMin |-> 0], list, 1, day)
             currentMid == DailyVwap(list[Len(list)])
             lastIdx == Len(list) - 1
             slope == IF lastIdx >= SLOPE_LOOKBACK
                      THEN currentMid - DailyVwap(list[Len(list) - SLOPE_LOOKBACK])
                      ELSE 0
         IN  [computed |-> TRUE,
              max |-> IF acc.any THEN acc.wMax ELSE currentMid,
              min |-> IF acc.any THEN acc.wMin ELSE currentMid,
              mid |-> currentMid,
              slope |-> slope,
              normalizedSlope |-> IF lastIdx >= SLOPE_LOOKBACK
                                  THEN NormalizedSlope(slope, currentAtr14(list))
                                  ELSE 0]

\* the candles of the model: a flat day without volume, a day above and a
\* day below
CandleShapes ==
    { [high |-> 10000, low |-> 10000, close |-> 10000, volume |-> 0, quoteVolume |-> 0],
      [high |-> 10300, low |-> 9900, close |-> 10100, volume |-> 10, quoteVolume |-> 102000],
      [high |-> 9800, low |-> 9400, close |-> 9600, volume |-> 10, quoteVolume |-> 95000] }

OldShapes ==
    { [high |-> 10000, low |-> 10000, close |-> 10000, volume |-> 0, quoteVolume |-> 0],
      [high |-> 10300, low |-> 9900, close |-> 10100, volume |-> 10, quoteVolume |-> 102000] }

\* the days on which the levels are computed: a Monday, a Wednesday, a Sunday
Days == {32, 34, 38}

\* how many candles the source returns
KlineCounts == {5, 14, 15, 16}

\* the candles that vary freely at the end of the list
RecentCandles == 3

WithTime(shape, time) == Spread(shape, [time |-> time])

\* n candles of consecutive days ending at day: the old ones of one shape,
\* the recent ones as given
KlinesOf(n, day, old, recent) ==
    [i \in 1..n |->
        WithTime(IF i <= n - RecentCandles THEN old ELSE recent[i - (n - RecentCandles)],
                 day - (n - i))]

\* the levels of the symbol are computed from the candles
ComputeLevels ==
    /\ lastOp = "load"
    /\ vwapData' = WeeklyVwapData(klines, today)
    /\ lastOp' = "levels"
    /\ UNCHANGED <<listed, revision, now, tickers, vwapStore, firstSeenTimes,
                   trackedGoldens, localStorage, lastSaved, peakPnl, purged, alertVars,
                   serviceVars, fetchVars, response, parsed, klines, today, stored,
                   restored, writeFails, cycleVars, dispatchVars, levelCacheVars,
                   socketVars>>

\* later in the same day: the live candle has moved and the levels are
\* computed again (the cached result has expired)
LiveUpdate ==
    /\ lastOp \in {"levels", "live"}
    /\ \E shape \in CandleShapes :
          /\ klines' = [klines EXCEPT ![Len(klines)] = WithTime(shape, @.time)]
          /\ klines' # klines
          /\ vwapData' = WeeklyVwapData(klines', today)
    /\ lastOp' = "live"
    /\ UNCHANGED <<listed, revision, now, tickers, vwapStore, firstSeenTimes,
                   trackedGoldens, localStorage, lastSaved, peakPnl, purged, alertVars,
                   serviceVars, fetchVars, response, parsed, today, stored, restored,
                   writeFails, cycleVars, dispatchVars, levelCacheVars,
                   socketVars>>

----------------------------------------------------------------------------
(* App: the level effect and its cycles (fetchSignals).  A ticker list is
   known by its generation (which call of setTickers made it) and by the
   number of its tickers, all taken to pass the volume filter. *)

CHUNK_SIZE == 15

\* i % 30 === 0
COMMIT_STRIDE == 30

\* how many ticker lists arrive, how many cycles start
MaxGenerations == 3

MaxCycles == 3

\* the lengths of the ticker lists: empty, two chunks, three chunks
TickerCounts == {0, 16, 31}

\* The tickers of a list are known by their rank in it (the lists are sorted
\* by volume); a store of levels is written rank by rank: 0 for a symbol
\* without levels, otherwise the first-seen stamp kept with its levels.  The
\* stamp a cycle gives (Date.now()) is the number of the cycle.
MaxRank == SetMax(TickerCounts)

\* the symbols whose level fetch gives nothing: fetchWeeklyVwapData returns
\* null (too few candles) or throws
Unavailable == {2}

NoneSeen == [r \in 1..MaxRank |-> 0]

NoLevels == [cycle |-> 0, gen |-> 0, seen |-> NoneSeen]

\* before the first ticker list: tickers is [], the effect has returned at
\* once and no cycle exists
IdleCycles ==
    /\ candidates = [gen |-> 0, n |-> 0]
    /\ effects = <<>>
    /\ cycles = <<>>
    /\ levelStore = NoLevels

\* variant: the whole list in one chunk
WholeList(n, i) == n - i

\* mainTickers.slice(i, i + CHUNK_SIZE).length
ChunkLength(n, i) == Min(CHUNK_SIZE, n - i)

\* a call of fetchSignals up to its first await: the copies of vwapStore and
\* firstSeenTimes as the effect run captured them, the loop test, the check
\* of cancelled, the fetches of the first chunk
NewCycle(e, n, cancelled, captured) ==
    [effect |-> e, i |-> 0, commits |-> 0, settled |-> 0, pending |-> captured,
     pc |-> IF n = 0 \/ cancelled THEN "done" ELSE "fetch"]

\* the effect runs with a non-empty list: it captures the list and the
\* stores of this render, calls fetchSignals and sets the 120-second interval
RunEffect(gen, n) ==
    /\ effects' = Append(effects, [gen |-> gen, n |-> n, cancelled |-> FALSE,
                                   timer |-> TRUE, captured |-> levelStore.seen])
    /\ cycles' = Append(cycles, NewCycle(Len(effects) + 1, n, FALSE, levelStore.seen))

\* the cleanup of the effect: cancelled = true, clearInterval
CleanupEffect ==
    /\ effects' = [e \in DOMAIN effects |->
                     [effects[e] EXCEPT !.cancelled = TRUE, !.timer = FALSE]]
    /\ cycles' = cycles

\* setTickers(data): a new ticker list.  The dependency of the effect is
\* tickers.length > 0, so cleanup and effect run only when that flips.
NewTickers ==
    /\ candidates.gen < MaxGenerations
    /\ \E n \in TickerCounts :
          /\ candidates' = [gen |-> candidates.gen + 1, n |-> n]
          /\ IF (n > 0) = (candidates.n > 0) THEN UNCHANGED <<effects, cycles, socketVars>>
             ELSE IF n > 0 THEN RunEffect(candidates.gen + 1, n)
             ELSE CleanupEffect
    /\ lastOp' = "tickers"
    /\ UNCHANGED <<listed, revision, now, tickers, vwapStore, firstSeenTimes,
                   trackedGoldens, localStorage, lastSaved, peakPnl, purged, alertVars,
                   serviceVars, fetchVars, dataVars, writeFails, dispatchVars,
                   levelCacheVars, levelStore, socketVars>>

\* setInterval(fetchSignals, 120000) fires: another call of the fetchSignals
\* of the effect run that set the interval
TimerFires ==
    /\ Len(cycles) < MaxCycles
    /\ \E e \in DOMAIN effects :
          /\ effects[e].timer
          /\ cycles' = Append(cycles, NewCycle(e, effects[e].n, effects[e].cancelled,
                                               effects[e].captured))
    /\ lastOp' = "timer"
    /\ UNCHANGED <<listed, revision, now, tickers, vwapStore, firstSeenTimes,
                   trackedGoldens, localStorage, lastSaved, peakPnl, purged, alertVars,
                   serviceVars, fetchVars, dataVars, writeFails, dispatchVars,
                   levelCacheVars, candidates, effects, levelStore, socketVars>>

\* the callback of chunk.map for the ticker of rank r in cycle k: with data,
\* pendingVwapStore gets the levels and pendingFirstSeen a stamp unless it
\* has one; without data, or after an error (caught), nothing changes
FetchLevels(pending, r, k) ==
    IF r \in Unavailable \/ pending[r] # 0 THEN pending
    ELSE [pending EXCEPT ![r] = k]

\* the fetches of the ranks from..to settle
RECURSIVE SettleFetches(_, _, _, _)
SettleFetches(pending, from, to, k) ==
    IF from > to THEN pending
    ELSE SettleFetches(FetchLevels(pending, from, k), from + 1, to, k)

\* !cancelled && (i % 30 === 0 || i + CHUNK_SIZE >= mainTickers.length)
CommitsAfterChunk(effect, i) ==
    /\ ~effect.cancelled
    /\ (i % COMMIT_STRIDE = 0 \/ i + CHUNK_SIZE >= effect.n)

\* one fetch of a chunk settles, not the last one (the fetches are taken to
\* settle in the order of the list)
FetchSettled ==
    /\ \E k \in DOMAIN cycles :
          LET c == cycles[k]
              length == ChunkLength(effects[c.effect].n, c.i)
          IN  /\ c.pc = "fetch"
              /\ c.settled + 1 < length
              /\ cycles' = [cycles EXCEPT ![k] =
                              [c EXCEPT !.settled = @ + 1,
                                        !.pending = FetchLevels(@, c.i + c.settled + 1, k)]]
    /\ lastOp' = "fetch"
    /\ UNCHANGED <<listed, revision, now, tickers, vwapStore, firstSeenTimes,
                   trackedGoldens, localStorage, lastSaved, peakPnl, purged, alertVars,
                   serviceVars, fetchVars, dataVars, writeFails, dispatchVars,
                   levelCacheVars, candidates, effects, levelStore, socketVars>>

\* the Promise.all of a chunk settles (with the fetches still in flight): the
\* intermediate update, then either the 200 ms delay or the end of the loop
ChunkSettled ==
    /\ \E k \in DOMAIN cycles :
          LET c == cycles[k]
              effect == effects[c.effect]
              length == ChunkLength(effect.n, c.i)
              pending == SettleFetches(c.pending, c.i + c.settled + 1, c.i + length, k)
              commit == CommitsAfterChunk(effect, c.i)
              more == c.i + CHUNK_SIZE < effect.n
          IN  /\ c.pc = "fetch"
              /\ levelStore' = IF commit
                               THEN [cycle |-> k, gen |-> effect.gen, seen |-> pending]
                               ELSE levelStore
              /\ cycles' = [cycles EXCEPT ![k] =
                              [c EXCEPT !.commits = IF commit THEN @ + 1 ELSE @,
                                        !.pending = pending,
                                        !.settled = 0,
                                        !.pc = IF more THEN "delay" ELSE "done",
                                        !.i = IF more THEN @ ELSE @ + CHUNK_SIZE]]
    /\ lastOp' = "chunk"
    /\ UNCHANGED <<listed, revision, now, tickers, vwapStore, firstSeenTimes,
                   trackedGoldens, localStorage, lastSaved, peakPnl, purged, alertVars,
                   serviceVars, fetchVars, dataVars, writeFails, dispatchVars,
                   levelCacheVars, candidates, effects, socketVars>>

\* the delay between two chunks has passed: i += CHUNK_SIZE, the check of
\* cancelled, the fetches of the next chunk
DelayElapsed ==
    /\ \E k \in DOMAIN cycles :
          /\ cycles[k].pc = "delay"
          /\ cycles' = [cycles EXCEPT ![k] =
                          [@ EXCEPT !.i = @ + CHUNK_SIZE,
                                    !.pc = IF effects[cycles[k].effect].cancelled
                                           THEN "done" ELSE "fetch"]]
    /\ lastOp' = "delay"
    /\ UNCHANGED <<listed, revision, now, tickers, vwapStore, firstSeenTimes,
                   trackedGoldens, localStorage, lastSaved, peakPnl, purged, alertVars,
                   serviceVars, fetchVars, dataVars, writeFails, dispatchVars,
                   levelCacheVars, candidates, effects, levelStore, socketVars>>

----------------------------------------------------------------------------
(* cexService: the cache of fetchWeeklyVwapData, for one symbol.  The clock
   is fetchClock, in units of 10 seconds. *)

\* 1000 * 60 * 1 ms
VWAP_CACHE_TTL == 6

\* the level calls stop at this reading of the clock, and after this many
\* requests to the source
MaxLevelClock == 7

MaxRequests == 3

NoVwapCache == [cached |-> FALSE, expires |-> 0]

NoLevelCall == [pc |-> "idle", result |-> "none"]

IdleLevelCache ==
    /\ vwapCache = NoVwapCache
    /\ levelCalls = [c \in Callers |-> NoLevelCall]
    /\ sourceRequests = <<>>

\* cached && cached.expires > Date.now()
IsCachedLevel(c, clock) == c.cached /\ c.expires > clock

\* fetchWeeklyVwapData up to its await: the cached result is returned, or
\* the candles are requested from the source
LevelCallStart(c) ==
    /\ levelCalls[c].pc = "idle"
    /\ Len(sourceRequests) < MaxRequests
    /\ IF IsCachedLevel(vwapCache, fetchClock)
       THEN /\ levelCalls' = [levelCalls EXCEPT ![c] = [pc |-> "idle", result |-> "data"]]
            /\ sourceRequests' = sourceRequests
       ELSE /\ levelCalls' = [levelCalls EXCEPT ![c] = [pc |-> "klines", result |-> "none"]]
            /\ sourceRequests' = Append(sourceRequests, fetchClock)
    /\ lastOp' = "levelcall"
    /\ UNCHANGED <<listed, revision, now, tickers, vwapStore, firstSeenTimes,
                   trackedGoldens, localStorage, lastSaved, peakPnl, purged, alertVars,
                   serviceVars, fetchVars, dataVars, writeFails, cycleVars, dispatchVars,
                   vwapCache, socketVars>>

\* fetchBinanceKlines has returned: with fewer than 15 candles (or none,
\* after an error) the result is null and nothing is cached; otherwise the
\* levels are computed and cached for one minute
LevelCallReturn(c) ==
    /\ levelCalls[c].pc = "klines"
    /\ \E n \in KlineCounts :
          IF n < MIN_KLINES
          THEN /\ levelCalls' = [levelCalls EXCEPT ![c] = [pc |-> "idle", result |-> "null"]]
               /\ vwapCache' = vwapCache
          ELSE /\ levelCalls' = [levelCalls EXCEPT ![c] = [pc |-> "idle", result |-> "data"]]
               /\ vwapCache' = [cached |-> TRUE, expires |-> fetchClock + VWAP_CACHE_TTL]
    /\ lastOp' = "levelreturn"
    /\ UNCHANGED <<listed, revision, now, tickers, vwapStore, firstSeenTimes,
                   trackedGoldens, localStorage, lastSaved, peakPnl, purged, alertVars,
                   serviceVars, fetchVars, dataVars, writeFails, cycleVars, dispatchVars,
                   sourceRequests, socketVars>>

\* time passes
LevelClockTick ==
    /\ fetchClock < MaxLevelClock
    /\ fetchClock' = fetchClock + 1
    /\ lastOp' = "clock"
    /\ UNCHANGED <<listed, revision, now, tickers, vwapStore, firstSeenTimes,
                   trackedGoldens, localStorage, lastSaved, peakPnl, purged, alertVars,
                   serviceVars, cache, fetchers, dataVars, writeFails, cycleVars,
                   dispatchVars, levelCacheVars, socketVars>>

----------------------------------------------------------------------------
(* cexService: the ticker WebSocket, its listeners and its reconnection *)

MaxSockets == 4
MaxNoops == 1

\* the callbacks given to initCexWebSocket and to subscribeToTicker, and the
\* anonymous `() => { }` listeners subscribeToTicker creates
Callbacks == {"a", "b"}
TickerCallbacks == {"p"}
Noops == <<"noop1">>
AllCallbacks == Callbacks \cup TickerCallbacks \cup {Noops[i] : i \in DOMAIN Noops}

NoCalls == [l \in AllCallbacks |-> 0]

\* `let ws = null`, `let listeners = []`, `new Map()`
IdleSocket ==
    /\ ws = 0
    /\ sockets = <<>>
    /\ listeners = <<>>
    /\ tickerSubscriptions = <<>>
    /\ closures = {}
    /\ reconnects = 0
    /\ delivered = NoCalls

\* WebSocket.close(): a socket that is connecting or open starts closing; its
\* close event comes later
close(socks, s) ==
    IF socks[s] \in {"CONNECTING", "OPEN"} THEN [socks EXCEPT ![s] = "CLOSING"] ELSE socks

\* if (!list.includes(x)) list.push(x)
pushNew(list, x) ==
    IF \E i \in DOMAIN list : list[i] = x THEN list ELSE Append(list, x)

\* list.filter(l => l !== x)
without(list, x) == SelectSeq(list, LAMBDA l : l # x)

\* initCexWebSocket(onUpdate) on the module state (sock, socks, ls): the
\* state it leaves and the function it returns (closes: the function closes
\* the socket when nothing is registered any more)
initCexWebSocket(onUpdate, sock, socks, ls) ==
    IF sock # 0 /\ socks[sock] = "OPEN"
    THEN [ws |-> sock, sockets |-> socks, listeners |-> pushNew(ls, onUpdate),
          closure |-> [kind |-> "listener", cb |-> onUpdate, closes |-> FALSE]]
    ELSE [ws |-> Len(socks) + 1,
          sockets |-> Append(IF sock # 0 THEN close(socks, sock) ELSE socks, "CONNECTING"),
          listeners |-> pushNew(ls, onUpdate),
          closure |-> [kind |-> "listener", cb |-> onUpdate, closes |-> TRUE]]

SocketFrame ==
    UNCHANGED <<listed, revision, now, tickers, vwapStore, firstSeenTimes, trackedGoldens,
                localStorage, lastOp, lastSaved, peakPnl, purged, alertVars, serviceVars,
                dataVars, writeFails, fetchVars, cycleVars, dispatchVars, levelCacheVars>>

\* a component calls initCexWebSocket with its callback
InitCexWebSocket(onUpdate) ==
    LET r == initCexWebSocket(onUpdate, ws, sockets, listeners) IN
    /\ Len(r.sockets) <= MaxSockets
    /\ ws' = r.ws
    /\ sockets' = r.sockets
    /\ listeners' = r.listeners
    /\ closures' = closures \cup {r.closure}
    /\ delivered' = NoCalls
    /\ UNCHANGED <<tickerSubscriptions, reconnects>>
    /\ SocketFrame

\* the anonymous listeners registered so far: none is ever removed, the
\* function initCexWebSocket returns for them is dropped
NoopsRegistered == Len(SelectSeq(listeners, LAMBDA l : l \notin Callbacks))

\* a component calls subscribeToTicker with its callback
SubscribeToTicker(onUpdate) ==
    /\ tickerSubscriptions' = pushNew(tickerSubscriptions, onUpdate)
    /\ IF ws = 0
       THEN /\ NoopsRegistered < MaxNoops
            /\ Len(sockets) < MaxSockets
            /\ LET r == initCexWebSocket(Noops[NoopsRegistered + 1], ws, sockets, listeners)
               IN  /\ ws' = r.ws
                   /\ sockets' = r.sockets
                   /\ listeners' = r.listeners
       ELSE UNCHANGED <<ws, sockets, listeners>>
    /\ closures' = closures \cup {[kind |-> "ticker", cb |-> onUpdate, closes |-> TRUE]}
    /\ delivered' = NoCalls
    /\ UNCHANGED reconnects
    /\ SocketFrame

\* a function returned by initCexWebSocket or subscribeToTicker is called
Unsubscribe(c) ==
    LET ls == IF c.kind = "listener" THEN without(listeners, c.cb) ELSE listeners
        subs == IF c.kind = "ticker" THEN without(tickerSubscriptions, c.cb)
                ELSE tickerSubscriptions
    IN  /\ c \in closures
        /\ listeners' = ls
        /\ tickerSubscriptions' = subs
        /\ IF c.closes /\ ls = <<>> /\ subs = <<>> /\ ws # 0
           THEN /\ sockets' = close(sockets, ws)
                /\ ws' = 0
           ELSE UNCHANGED <<ws, sockets>>
        /\ closures' = closures \ {c}
        /\ delivered' = NoCalls
        /\ UNCHANGED reconnects
        /\ SocketFrame

\* the connection of a socket is established
SocketOpens(s) ==
    /\ sockets[s] = "CONNECTING"
    /\ sockets' = [sockets EXCEPT ![s] = "OPEN"]
    /\ delivered' = NoCalls
    /\ UNCHANGED <<ws, listeners, tickerSubscriptions, closures, reconnects>>
    /\ SocketFrame

\* the close event of a socket (the connection failed or dropped, or a
\* close() call completed): onclose sets ws to null and arms the timer
SocketCloses(s) ==
    /\ sockets[s] \in {"CONNECTING", "OPEN", "CLOSING"}
    /\ sockets' = [sockets EXCEPT ![s] = "CLOSED"]
    /\ ws' = 0
    /\ reconnects' = reconnects + 1
    /\ delivered' = NoCalls
    /\ UNCHANGED <<listeners, tickerSubscriptions, closures>>
    /\ SocketFrame

\* the 5 s timer of onclose fires: initCexWebSocket is called again with the
\* first listener when there is one
Reconnect ==
    /\ reconnects > 0
    /\ reconnects' = reconnects - 1
    /\ IF (Len(listeners) > 0 \/ Len(tickerSubscriptions) > 0) /\ listeners # <<>>
       THEN LET r == initCexWebSocket(listeners[1], ws, sockets, listeners)
            IN  /\ Len(r.sockets) <= MaxSockets
                /\ ws' = r.ws
                /\ sockets' = r.sockets
                /\ listeners' = r.listeners
       ELSE UNCHANGED <<ws, sockets, listeners>>
    /\ delivered' = NoCalls
    /\ UNCHANGED <<tickerSubscriptions, closures>>
    /\ SocketFrame

\* the sockets whose onmessage runs on a message of the stream
OpenSockets == {s \in DOMAIN sockets : sockets[s] = "OPEN"}

\* the stream sends one update (with the ticker of the model in it): every
\* open socket receives it and its onmessage calls the listeners and the
\* subscribers of the ticker
StreamUpdate ==
    /\ OpenSockets # {}
    /\ delivered' = [l \in AllCallbacks |->
          IF \/ \E i \in DOMAIN listeners : listeners[i] = l
             \/ \E i \in DOMAIN tickerSubscriptions : tickerSubscriptions[i] = l
          THEN Cardinality(OpenSockets) ELSE 0]
    /\ UNCHANGED <<ws, sockets, listeners, tickerSubscriptions, closures, reconnects>>
    /\ SocketFrame

----------------------------------------------------------------------------
(* cexService: the ticker fetch with its fallback and its cache *)

FetchListing == <<"A">>

\* `let cache = null`
NoCache == [set |-> FALSE, data |-> <<>>, ts |-> 0]

\* a caller that is not inside fetchCexTickers and has no result yet
Idle == [pc |-> "idle", path |-> "none", result |-> [kind |-> "none", data |-> <<>>]]

\* what a source answers: a failure (transport error, non-2xx status, an
\* error code, a body the conversion throws on) or a ticker list
Failure == [ok |-> FALSE, data |-> <<>>]

Responses == {Failure} \cup {[ok |-> TRUE, data |-> TickerListOf(q)] : q \in Quotes}

\* the promise resolves with a list
Resolved(data) == [kind |-> "value", data |-> data]

\* the promise rejects
Rejected == [kind |-> "error", data |-> <<>>]

\* cache && Date.now() - cache.ts < CACHE_TTL
IsFresh(c, clock) == c.set /\ clock - c.ts < CACHE_TTL

\* variant: the cache is served only while fresh, an error otherwise
FreshCacheOrError(c, clock) ==
    [result |-> IF IsFresh(c, clock) THEN Resolved(c.data) ELSE Rejected, cache |-> c]

\* variant: the failure forgets the cache
ForgetCache(c, clock) ==
    [result |-> Resolved(IF c.set THEN c.data ELSE <<>>), cache |-> NoCache]

\* the catch of fetchKuCoinTickers: return cache?.data || []
KuCoinFailure(c, clock) ==
    [result |-> Resolved(IF c.set THEN c.data ELSE <<>>), cache |-> c]

\* the success path of either source: cache = { data, ts: Date.now() }
SourceSuccess(data, clock) ==
    [result |-> Resolved(data), cache |-> [set |-> TRUE, data |-> data, ts |-> clock]]

\* fetchCexTickers up to its first await
FetchStart(c) ==
    /\ fetchers[c].pc \in {"idle", "done"}
    /\ fetchers' = [fetchers EXCEPT ![c] =
                      IF IsFresh(cache, fetchClock)
                      THEN [pc |-> "done", path |-> "cache", result |-> Resolved(cache.data)]
                      ELSE [pc |-> "primary", path |-> "none",
                            result |-> [kind |-> "none", data |-> <<>>]]]
    /\ lastOp' = "fetch"
    /\ UNCHANGED <<listed, revision, now, tickers, vwapStore, firstSeenTimes,
                   trackedGoldens, localStorage, lastSaved, peakPnl, purged, alertVars,
                   serviceVars, dataVars, writeFails, cycleVars, cache, fetchClock,
                   dispatchVars, levelCacheVars, socketVars>>

\* the Binance request settles: the list is cached and returned, or the
\* catch calls fetchKuCoinTickers
BinanceResponse(c) ==
    /\ fetchers[c].pc = "primary"
    /\ \E r \in Responses :
         IF r.ok
         THEN /\ cache' = SourceSuccess(r.data, fetchClock).cache
              /\ fetchers' = [fetchers EXCEPT ![c] =
                      [pc |-> "done", path |-> "primary",
                       result |-> SourceSuccess(r.data, fetchClock).result]]
         ELSE /\ cache' = cache
              /\ fetchers' = [fetchers EXCEPT ![c].pc = "secondary"]
    /\ lastOp' = "fetch"
    /\ UNCHANGED <<listed, revision, now, tickers, vwapStore, firstSeenTimes,
                   trackedGoldens, localStorage, lastSaved, peakPnl, purged, alertVars,
                   serviceVars, dataVars, writeFails, cycleVars, fetchClock,
                   dispatchVars, levelCacheVars, socketVars>>

\* the KuCoin request settles: the list is cached and returned, or the catch
\* returns what the cache holds
KuCoinResponse(c) ==
    /\ fetchers[c].pc = "secondary"
    /\ \E r \in Responses :
         LET out == IF r.ok THEN SourceSuccess(r.data, fetchClock)
                    ELSE KuCoinFailure(cache, fetchClock)
         IN  /\ cache' = out.cache
             /\ fetchers' = [fetchers EXCEPT ![c] =
                     [pc |-> "done",
                      path |-> IF r.ok THEN "secondary" ELSE "fallback",
                      result |-> out.result]]
    /\ lastOp' = "fetch"
    /\ UNCHANGED <<listed, revision, now, tickers, vwapStore, firstSeenTimes,
                   trackedGoldens, localStorage, lastSaved, peakPnl, purged, alertVars,
                   serviceVars, dataVars, writeFails, cycleVars, fetchClock,
                   dispatchVars, levelCacheVars, socketVars>>

\* ten seconds pass
FetchTick ==
    /\ fetchClock < MaxFetchClock
    /\ fetchClock' = fetchClock + 1
    /\ lastOp' = "wait"
    /\ UNCHANGED <<listed, revision, now, tickers, vwapStore, firstSeenTimes,
                   trackedGoldens, localStorage, lastSaved, peakPnl, purged, alertVars,
                   serviceVars, dataVars, writeFails, cycleVars, cache, fetchers,
                   dispatchVars, levelCacheVars, socketVars>>

NoDelivery == [s \in Symbols |-> [type |-> "NONE", sent |-> FALSE]]

\* index of the latest call for s in a log of calls, 0 if none
LatestCall(log, s) ==
    IF \E i \in DOMAIN log : log[i].symbol = s
    THEN SetMax({i \in DOMAIN log : log[i].symbol = s})
    ELSE 0

RecordCalls(log) ==
    /\ UNCHANGED <<fetchVars, dataVars, writeFails, cycleVars, dispatchVars, levelCacheVars, socketVars>>
    /\ lastCalls' = log
    /\ delivery' = [s \in Symbols |->
                      IF LatestCall(log, s) = 0 THEN delivery[s]
                      ELSE [type |-> log[LatestCall(log, s)].type,
                            sent |-> log[LatestCall(log, s)].sent]]

\* the calls the alert effect makes on these signals
AlertCalls(sigs, config) ==
    AlertEffect(revision, config, sigs, alertedRef, exitAlertedRef).calls

\* the outcomes the deliveries of n calls can have
Outcomes(n) == [1..n -> BOOLEAN]

\* a render of DecisionBuyAi with new props.  In revision 2 computing the
\* signals throws when a ticker with levels is not GOLDEN: the component dies.
Render(tks, store, seen) ==
    /\ lastOp # "crash"
    /\ tickers' = tks
    /\ vwapStore' = store
    /\ firstSeenTimes' = seen
    /\ UNCHANGED <<listed, revision, now, tgConfig, dispatchVars, levelCacheVars, socketVars>>
    /\ IF revision = 2 /\ SignalsThrow2(tks, store, seen, now)
       THEN /\ lastOp' = "crash"
            /\ UNCHANGED <<trackedGoldens, localStorage, lastSaved, peakPnl, purged,
                           alertedRef, exitAlertedRef, dispatched, goldenRuns,
                           runLength, enabledThroughout, serviceVars, dataVars,
                           writeFails, cycleVars, fetchVars, dispatchVars,
                           levelCacheVars, socketVars>>
       ELSE LET sigs == Signals(revision, tks, store, seen, now)
                calls == AlertCalls(sigs, tgConfig)
            IN  \E accepted \in Outcomes(Len(calls)) :
                  LET d == DeliverCalls([store |-> localStorage, log |-> <<>>],
                                        calls, accepted, now)
                  IN  /\ lastOp' = IF writeFails THEN "crash" ELSE "reconcile"
                      /\ RunAlerts(sigs, tgConfig, alertedRef, exitAlertedRef)
                      /\ RecordCalls(d.log)
                      /\ RunTracker(tks, store, seen, d.store)

\* App.loadInitialData: the ticker list is replaced wholesale
TickerRefresh ==
    \E q \in Quotes : Render(TickerListOf(q), vwapStore, firstSeenTimes)

\* App.fetchSignals commits the levels a cycle has fetched so far, each with
\* the time the cycle first stored it
LevelCommit ==
    /\ tickers # <<>>
    /\ \E S \in SUBSET Symbols :
         \E store \in [S -> UNION {LevelsOf(s) : s \in Symbols}] :
           \E seen \in [S -> Instants] :
              /\ \A s \in S : store[s] \in LevelsOf(s)
              /\ \A s \in S : \/ seen[s] = now
                              \/ s \in DOMAIN firstSeenTimes /\ seen[s] = firstSeenTimes[s]
              /\ Render(tickers, store, seen)

\* the clock advances
Tick ==
    /\ \E t \in Instants : t > now /\ now' = t
    /\ lastOp' = IF lastOp = "crash" THEN "crash" ELSE "tick"
    /\ UNCHANGED <<listed, revision, tickers, vwapStore, firstSeenTimes, trackedGoldens,
                   localStorage, lastSaved, peakPnl, purged, alertVars, serviceVars,
                   dataVars, writeFails, cycleVars, fetchVars, dispatchVars,
                   levelCacheVars, socketVars>>

\* the page is (re)loaded: the component state starts from the persisted
\* ledger and the mount-time run of the tracker effect sees no ticker yet
Mount(store) ==
    LET loaded == loadTrackedGoldens(store, now)
        r == Tracker(revision, loaded, <<>>, <<>>, store, now)
    IN  /\ trackedGoldens' = IF writeFails THEN loaded ELSE r.updated
        /\ localStorage' = IF writeFails THEN store ELSE r.store
        /\ lastSaved' = loaded
        /\ peakPnl' = [s \in Symbols |->
                          IF HasEntry(r.updated, s) THEN peakPnl[s] ELSE LowestPnl]
        /\ purged' = FALSE

ColdStart ==
    /\ tickers' = <<>>
    /\ vwapStore' = <<>>
    /\ firstSeenTimes' = <<>>
    /\ lastOp' = IF writeFails THEN "crash" ELSE "load"
    /\ Mount(localStorage)
    /\ tgConfig' = loadTelegramConfig(localStorage)
    /\ RunAlerts(<<>>, loadTelegramConfig(localStorage), {}, {})
    /\ RecordCalls(<<>>)
    /\ UNCHANGED <<listed, revision, now, dispatchVars, levelCacheVars, socketVars>>

\* revision 2, handleResetTracker (the confirm dialog accepted)
ResetTracker ==
    /\ revision = 2
    /\ lastOp # "crash"
    /\ trackedGoldens' = <<>>
    /\ localStorage' = RemoveItem(RemoveItem(localStorage, RESET_TRACKER_KEY), STAT_KEY)
    /\ lastOp' = "reset"
    /\ peakPnl' = [s \in Symbols |-> LowestPnl]
    /\ UNCHANGED <<listed, revision, now, tickers, vwapStore, firstSeenTimes, lastSaved,
                   purged, alertVars, serviceVars, dataVars, writeFails, cycleVars, fetchVars,
                   dispatchVars, levelCacheVars, socketVars>>

\* the alert switch of the settings panel: handleSaveConfig with enabled
\* negated; the alert effect runs again on the signals of the last render
ToggleAlerts ==
    LET config == [tgConfig EXCEPT !.enabled = ~@]
        sigs == Signals(revision, tickers, vwapStore, firstSeenTimes, now)
        calls == AlertCalls(sigs, config)
    IN
    /\ lastOp # "crash"
    /\ tgConfig' = config
    /\ \E accepted \in Outcomes(Len(calls)) :
          LET d == DeliverCalls([store |-> saveTelegramConfig(localStorage, config),
                                 log |-> <<>>], calls, accepted, now)
          IN  /\ localStorage' = d.store
              /\ RecordCalls(d.log)
    /\ RunAlerts(sigs, config, alertedRef, exitAlertedRef)
    /\ lastOp' = "config"
    /\ UNCHANGED <<listed, revision, now, tickers, vwapStore, firstSeenTimes,
                   trackedGoldens, lastSaved, peakPnl, purged, dispatchVars,
                   levelCacheVars, socketVars>>

NothingStored == [key |-> "none", form |-> "absent"]

NotLoaded == [done |-> FALSE]

\* no response converted, no level computed
IdleData ==
    /\ response = <<>>
    /\ parsed = NotParsed
    /\ klines = <<>>
    /\ today = 0
    /\ vwapData = NotComputed
    /\ stored = NothingStored
    /\ restored = NotLoaded

\* the state after the first mount, over a store holding an empty ledger and
\* the given Telegram settings
InitApp(store) ==
    /\ revision \in {1, 2}
    /\ now = StartTime
    /\ tickers = <<>>
    /\ vwapStore = <<>>
    /\ firstSeenTimes = <<>>
    /\ trackedGoldens = <<>>
    /\ localStorage = saveTrackedGoldens(store, <<>>, StartTime)
    /\ lastOp = "load"
    /\ lastSaved = <<>>
    /\ peakPnl = [s \in Symbols |-> LowestPnl]
    /\ purged = FALSE
    /\ tgConfig = loadTelegramConfig(store)
    /\ alertedRef = {}
    /\ exitAlertedRef = {}
    /\ dispatched = NoCount
    /\ goldenRuns = NoCount
    /\ runLength = NoCount
    /\ enabledThroughout = loadTelegramConfig(store).enabled
    /\ lastCalls = <<>>
    /\ delivery = NoDelivery
    /\ cache = NoCache
    /\ fetchers = [c \in Callers |-> Idle]
    /\ fetchClock = 0

InitWith(store) ==
    /\ InitApp(store)
    /\ IdleData
    /\ writeFails = FALSE
    /\ IdleCycles
    /\ IdleSocket
    /\ IdleLevelCache
    /\ IdleDispatch

\* the tracker runs: no Telegram settings stored, the alerts are off
Init ==
    /\ listed \in Listings
    /\ InitWith(NoStorage)

Next ==
    \/ TickerRefresh
    \/ LevelCommit
    \/ Tick
    \/ ColdStart
    \/ ResetTracker

Spec == Init /\ [][Next]_vars

\* the alert runs: the settings stored have the alerts switched on
EnabledConfig == [botToken |-> "token", chatId |-> "1", enabled |-> TRUE]

InitAlert ==
    /\ listed = AlertListing
    /\ InitWith(saveTelegramConfig(NoStorage, EnabledConfig))

NextAlert ==
    \/ TickerRefresh
    \/ LevelCommit
    \/ Tick
    \/ ColdStart
    \/ ToggleAlerts

SpecAlert == InitAlert /\ [][NextAlert]_vars

\* the classifier and one reconciliation on given inputs: one ticker A, one
\* level set, an empty ledger, revision 1
ScenarioPrices == {9400, 9700, 10000, 10001, 11000}

ScenarioLevels ==
    {[max |-> 10000, min |-> 9000, mid |-> 9500, normalizedSlope |-> slope] :
        slope \in {-10, 3, 5, 10, 25, 30}}

ScenarioTimes == {1, 145}

InitScenario ==
    /\ listed = <<"A">>
    /\ revision = 1
    /\ now \in ScenarioTimes
    /\ \E p \in ScenarioPrices : tickers = <<[symbol |-> "A", priceUsd |-> p]>>
    /\ \E lv \in ScenarioLevels : vwapStore = [s \in {"A"} |-> lv]
    /\ \/ firstSeenTimes = <<>>
       \/ \E t \in ScenarioTimes : t <= now /\ firstSeenTimes = [s \in {"A"} |-> t]
    /\ trackedGoldens = <<>>
    /\ localStorage = saveTrackedGoldens(NoStorage, <<>>, now)
    /\ lastOp = "start"
    /\ lastSaved = <<>>
    /\ peakPnl = [s \in Symbols |-> LowestPnl]
    /\ purged = FALSE
    /\ tgConfig = DefaultConfig
    /\ alertedRef = {}
    /\ exitAlertedRef = {}
    /\ dispatched = NoCount
    /\ goldenRuns = NoCount
    /\ runLength = NoCount
    /\ enabledThroughout = FALSE
    /\ lastCalls = <<>>
    /\ delivery = NoDelivery
    /\ cache = NoCache
    /\ fetchers = [c \in Callers |-> Idle]
    /\ fetchClock = 0
    /\ IdleData
    /\ writeFails = FALSE
    /\ IdleCycles
    /\ IdleSocket
    /\ IdleLevelCache
    /\ IdleDispatch

\* the store starts refusing writes (the quota is reached, the storage is
\* denied)
StorageChange ==
    /\ ~writeFails
    /\ writeFails' = TRUE
    /\ lastOp' = IF lastOp = "crash" THEN "crash" ELSE "storage"
    /\ UNCHANGED <<listed, revision, now, tickers, vwapStore, firstSeenTimes,
                   trackedGoldens, localStorage, lastSaved, peakPnl, purged, alertVars,
                   serviceVars, fetchVars, dataVars, cycleVars, dispatchVars,
                   levelCacheVars, socketVars>>

\* the tracker over a store whose writes can fail
StorageListing == <<"C">>

InitStorage ==
    /\ listed = StorageListing
    /\ InitWith(NoStorage)

NextStorage ==
    \/ TickerRefresh
    \/ LevelCommit
    \/ Tick
    \/ ColdStart
    \/ StorageChange

SpecStorage == InitStorage /\ [][NextStorage]_vars

\* the levels of one symbol over the candles of one day
LevelListing == <<"A">>

InitLevels ==
    /\ listed = LevelListing
    /\ revision = 1
    /\ InitApp(NoStorage)
    /\ response = <<>>
    /\ parsed = NotParsed
    /\ today \in Days
    /\ \E n \in KlineCounts, old \in OldShapes,
          recent \in [1..RecentCandles -> CandleShapes] :
            klines = KlinesOf(n, today, old, recent)
    /\ vwapData = NotComputed
    /\ stored = NothingStored
    /\ restored = NotLoaded
    /\ writeFails = FALSE
    /\ IdleCycles
    /\ IdleSocket
    /\ IdleLevelCache
    /\ IdleDispatch

NextLevels ==
    \/ ComputeLevels
    \/ LiveUpdate

SpecLevels == InitLevels /\ [][NextLevels]_vars

\* the level calls for one symbol
LevelCacheListing == <<"A">>

InitLevelCache ==
    /\ listed = LevelCacheListing
    /\ InitWith(NoStorage)
    /\ revision = 1

NextLevelCache ==
    \/ \E c \in Callers : LevelCallStart(c)
    \/ \E c \in Callers : LevelCallReturn(c)
    \/ LevelClockTick

SpecLevelCache == InitLevelCache /\ [][NextLevelCache]_vars

\* the ticker WebSocket under every order of calls and socket events
SocketListing == <<"A">>

InitSocket ==
    /\ listed = SocketListing
    /\ InitWith(NoStorage)
    /\ revision = 1

NextSocket ==
    \/ \E l \in Callbacks : InitCexWebSocket(l)
    \/ \E l \in TickerCallbacks : SubscribeToTicker(l)
    \/ \E c \in closures : Unsubscribe(c)
    \/ \E s \in DOMAIN sockets : SocketOpens(s)
    \/ \E s \in DOMAIN sockets : SocketCloses(s)
    \/ Reconnect
    \/ StreamUpdate

SpecSocket == InitSocket /\ [][NextSocket]_vars

\* one symbol followed until its entry expires
InitHistory ==
    /\ listed = HistoryListing
    /\ InitWith(NoStorage)

NextHistory ==
    \/ TickerRefresh
    \/ LevelCommit
    \/ Tick

SpecHistory == InitHistory /\ [][NextHistory]_vars

\* one dispatch over every token and chat id text
DispatchListing == <<"A">>

InitDispatch ==
    /\ listed = DispatchListing
    /\ revision = 1
    /\ InitApp(NoStorage)
    /\ IdleData
    /\ writeFails = FALSE
    /\ IdleCycles
    /\ IdleSocket
    /\ IdleLevelCache
    /\ \E botToken \in {"", "token"}, chars \in ChatIdTexts :
          dispatch = [botToken |-> botToken, chatId |-> chars, call |-> NoDispatch]

NextDispatch ==
    \/ Dispatch
    \/ NextMessage

SpecDispatch == InitDispatch /\ [][NextDispatch]_vars

\* the level effect of App and its cycles
CycleListing == <<"A">>

InitCycle ==
    /\ listed = CycleListing
    /\ revision = 1
    /\ InitApp(NoStorage)
    /\ IdleData
    /\ writeFails = FALSE
    /\ IdleCycles
    /\ IdleSocket
    /\ IdleLevelCache
    /\ IdleDispatch

NextCycle ==
    \/ NewTickers
    \/ TimerFires
    \/ ChunkSettled
    \/ DelayElapsed

SpecCycle == InitCycle /\ [][NextCycle]_vars

\* the cycles of the effect runs fetch by fetch, without the timer
NextChunk ==
    \/ NewTickers
    \/ FetchSettled
    \/ ChunkSettled
    \/ DelayElapsed

SpecChunk == InitCycle /\ [][NextChunk]_vars

\* the conversion of one response body
InitParse ==
    /\ listed = FetchListing
    /\ revision = 1
    /\ InitApp(NoStorage)
    /\ response \in Bodies
    /\ parsed = NotParsed
    /\ klines = <<>>
    /\ today = 0
    /\ vwapData = NotComputed
    /\ stored = NothingStored
    /\ restored = NotLoaded
    /\ writeFails = FALSE
    /\ IdleCycles
    /\ IdleSocket
    /\ IdleLevelCache
    /\ IdleDispatch

NextParse == ParseResponse

SpecParse == InitParse /\ [][NextParse]_vars

\* fetchCexTickers with two callers: each call is a sequence of steps
\* separated by its awaits
InitFetch ==
    /\ listed = FetchListing
    /\ InitWith(NoStorage)

NextFetch ==
    \/ \E c \in Callers : FetchStart(c)
    \/ \E c \in Callers : BinanceResponse(c)
    \/ \E c \in Callers : KuCoinResponse(c)
    \/ FetchTick

SpecFetch == InitFetch /\ [][NextFetch]_vars

\* the dispatcher called directly: any symbol, any kind the parameter type
\* admits, any outcome of the delivery
TelegramListing == <<"A", "B">>

AlertTypes == {"GOLDEN", "MOMENTUM", "SUPPORT", "CONVERGENCE", "EXIT"}

TelegramConfigs ==
    [botToken : {"", "token"}, chatId : {"", ",", "chat"}, enabled : BOOLEAN]

SendAlert ==
    \E symbol \in Symbols, type \in AlertTypes, accepted \in BOOLEAN :
       LET d == DeliverCalls([store |-> localStorage, log |-> <<>>],
                             <<(<<symbol, type>>)>>, <<accepted>>, now)
       IN  /\ lastOp' = "send"
           /\ localStorage' = d.store
           /\ RecordCalls(d.log)
           /\ UNCHANGED <<listed, revision, now, tickers, vwapStore, firstSeenTimes,
                          trackedGoldens, lastSaved, peakPnl, purged, alertVars,
                          dispatchVars, levelCacheVars, socketVars>>

InitTelegram ==
    /\ listed = TelegramListing
    /\ \E config \in TelegramConfigs : InitWith(saveTelegramConfig(NoStorage, config))

NextTelegram ==
    \/ SendAlert
    \/ Tick
    \/ ToggleAlerts

SpecTelegram == InitTelegram /\ [][NextTelegram]_vars

\* The reads of the cold start over any text the store can hold.  A stored
\* text is modelled by its form: absent (getItem gives null), garbage (not
\* JSON: JSON.parse throws), null (the JSON text null), object or array;
\* fields names the properties an object has and value carries their values,
\* items says for an array whether it holds a null element.
AUDIO_KEY == "dexpulse_audio_alerts"

ConfigFields == {"botToken", "chatId", "enabled"}

StatsFields == {"totalSignals", "successCount", "successRate", "avgGain"}

StoredText(key, form, fields, value) ==
    [key |-> key, form |-> form, fields |-> fields, value |-> value]

ConfigTexts ==
    {StoredText(CONFIG_KEY, form, {}, DefaultConfig) :
        form \in {"absent", "garbage", "null", "object"}}
    \cup {StoredText(CONFIG_KEY, "object", ConfigFields, c) : c \in TelegramConfigs}

SomeStats == [totalSignals |-> 3, successCount |-> 1, successRate |-> 33, avgGain |-> 400]

StatsTexts ==
    {StoredText(STAT_KEY, form, {}, DefaultStats) :
        form \in {"absent", "garbage", "null", "object"}}
    \cup {StoredText(STAT_KEY, "object", StatsFields, st) : st \in {DefaultStats, SomeStats}}

\* a ledger entry created at the given time
StoredEntry(symbol, signalTime) ==
    NewEntry1([symbol |-> symbol, priceUsd |-> 10000, activeSince |-> signalTime],
              signalTime)

StoredLedgers ==
    {<<>>,
     <<StoredEntry("A", StartTime)>>,
     <<StoredEntry("A", StartTime - TRACKER_EXPIRY_MS)>>,
     <<StoredEntry("A", StartTime - TRACKER_EXPIRY_MS), StoredEntry("B", StartTime)>>}

LedgerTexts ==
    {StoredText(GOLDEN_TRACKER_KEY, form, {}, <<>>) :
        form \in {"absent", "garbage", "null", "object", "arrayWithNull"}}
    \cup {StoredText(GOLDEN_TRACKER_KEY, "array", {}, l) : l \in StoredLedgers}

\* the audio preference is kept as a bare string
AudioTexts ==
    {StoredText(AUDIO_KEY, form, {}, v) :
        form \in {"absent", "string"}, v \in {"", "true", "false", "yes"}}

\* what a load function returns: isObject / isArray tell the shape of the
\* value, fields the properties it has
LoadedObject(fields, value) ==
    [done |-> TRUE, isObject |-> TRUE, fields |-> fields, value |-> value]

LoadedNull(value) ==
    [done |-> TRUE, isObject |-> FALSE, fields |-> {}, value |-> value]

\* loadTelegramConfig on any stored text: the result of JSON.parse is
\* returned as it is
loadTelegramConfigOf(text) ==
    IF text.form = "absent" THEN LoadedObject(ConfigFields, DefaultConfig)
    ELSE IF text.form = "garbage" THEN LoadedObject(ConfigFields, DefaultConfig)
    ELSE IF text.form = "null" THEN LoadedNull(DefaultConfig)
    ELSE LoadedObject(text.fields, text.value)

\* loadGoldenStats on any stored text
loadGoldenStatsOf(text) ==
    IF text.form = "absent" THEN LoadedObject(StatsFields, DefaultStats)
    ELSE IF text.form = "garbage" THEN LoadedObject(StatsFields, DefaultStats)
    ELSE IF text.form = "null" THEN LoadedNull(DefaultStats)
    ELSE LoadedObject(text.fields, text.value)

\* loadTrackedGoldens on any stored text: data.filter throws on a value that
\* is not an array and on a null element, and the catch returns []
loadTrackedGoldensOf(text, clock) ==
    [done |-> TRUE, isArray |-> TRUE,
     value |-> IF text.form = "array"
               THEN SelectSeq(text.value, LAMBDA t : NotExpired(t, clock))
               ELSE <<>>]

\* saved ? saved === 'true' : true
loadAudioEnabledOf(text) ==
    [done |-> TRUE, isBoolean |-> TRUE,
     value |-> IF text.form = "absent" \/ text.value = "" THEN TRUE
               ELSE text.value = "true"]

\* the component mounts over the stored text: the initial value of its state
ReadStored ==
    /\ lastOp = "load"
    /\ restored' = IF stored.key = CONFIG_KEY THEN loadTelegramConfigOf(stored)
                 ELSE IF stored.key = STAT_KEY THEN loadGoldenStatsOf(stored)
                 ELSE IF stored.key = GOLDEN_TRACKER_KEY
                      THEN loadTrackedGoldensOf(stored, now)
                 ELSE loadAudioEnabledOf(stored)
    /\ lastOp' = "read"
    /\ UNCHANGED <<listed, revision, now, tickers, vwapStore, firstSeenTimes,
                   trackedGoldens, localStorage, lastSaved, peakPnl, purged, alertVars,
                   serviceVars, fetchVars, response, parsed, klines, today, vwapData,
                   stored, writeFails, cycleVars, dispatchVars, levelCacheVars,
                   socketVars>>

LoadListing == <<"A", "B">>

InitLoad ==
    /\ listed = LoadListing
    /\ InitApp(NoStorage)
    /\ response = <<>>
    /\ parsed = NotParsed
    /\ klines = <<>>
    /\ today = 0
    /\ vwapData = NotComputed
    /\ \/ stored \in ConfigTexts
       \/ stored \in StatsTexts
       \/ stored \in LedgerTexts
       \/ stored \in AudioTexts
    /\ restored = NotLoaded
    /\ writeFails = FALSE
    /\ IdleCycles
    /\ IdleSocket
    /\ IdleLevelCache
    /\ IdleDispatch

NextLoad == ReadStored

SpecLoad == InitLoad /\ [][NextLoad]_vars

\* the render that hands the inputs to the component
ScenarioReconcile ==
    /\ lastOp = "start"
    /\ Render(tickers, vwapStore, firstSeenTimes)

NextScenario == ScenarioReconcile

SpecScenario == InitScenario /\ [][NextScenario]_vars

----------------------------------------------------------------------------
(* Properties of the tracker, checked under Spec *)

Entries == {trackedGoldens[i] : i \in DOMAIN trackedGoldens}

Persisted ==
    IF HasItem(localStorage, GOLDEN_TRACKER_KEY)
    THEN Range(JsonParse(localStorage[GOLDEN_TRACKER_KEY]))
    ELSE {}

CurrentSignals == Signals(revision, tickers, vwapStore, firstSeenTimes, now)

IsGoldenNow(s) ==
    \E i \in DOMAIN CurrentSignals :
        CurrentSignals[i].symbol = s /\ CurrentSignals[i].type = "GOLDEN"

\* price of the symbol in a ticker list, 0 when the list does not have it
PriceIn(tks, s) == IF FindIdx(tks, s) = 0 THEN 0 ELSE tks[FindIdx(tks, s)].priceUsd

\* C1: in revision 2 a reconciliation of an open entry with entryPrice 100
\* against the price 104 closes it (exitPrice, exitTime set, stillActive false)
\* with realizedPnl 4.0 and tpHit true, and against 103.99 leaves it open.
C1_TakeProfitBoundary ==
    [][(revision = 2 /\ lastOp' = "reconcile") =>
        \A i \in DOMAIN trackedGoldens : \A j \in DOMAIN trackedGoldens' :
            LET t == trackedGoldens[i]
                u == trackedGoldens'[j]
            IN  (~HasExit(t) /\ t.entryPrice = 10000 /\ u.symbol = t.symbol) =>
                  /\ PriceIn(tickers', t.symbol) = 10400 =>
                        /\ HasExit(u) /\ u.exitTime = now
                        /\ u.exitPrice = 10400
                        /\ ~u.stillActive
                        /\ u.realizedPnl = 400
                        /\ u.tpHit
                  /\ PriceIn(tickers', t.symbol) = 10399 => ~HasExit(u)]_vars

\* C3: a reconciliation that follows a reconciliation with the same tickers,
\* levels, first-seen times and clock leaves the ledger and the stats as the
\* first one left them.
C3_ReconcileIdempotent ==
    [][(/\ lastOp = "reconcile" /\ lastOp' = "reconcile"
        /\ tickers' = tickers /\ vwapStore' = vwapStore
        /\ firstSeenTimes' = firstSeenTimes /\ now' = now) =>
            /\ trackedGoldens' = trackedGoldens
            /\ loadGoldenStats(localStorage') = loadGoldenStats(localStorage)]_vars

\* C4: no two entries of the ledger with the same symbol are both open.
C4_OneOpenEntryPerSymbol ==
    \A i, j \in DOMAIN trackedGoldens :
        (/\ i # j
         /\ trackedGoldens[i].symbol = trackedGoldens[j].symbol
         /\ ~HasExit(trackedGoldens[i])) => HasExit(trackedGoldens[j])

\* an open entry created by an earlier reconciliation met a GOLDEN signal for
\* its symbol in the last one
C4_Witness ==
    /\ lastOp = "reconcile"
    /\ \E t \in Entries : /\ ~HasExit(t)
                          /\ IsGoldenNow(t.symbol)
                          /\ t.lastPrice # t.entryPrice

\* C5: an entry with an exitTime is not stillActive.
C5_ExitImpliesInactive ==
    \A t \in Entries : HasExit(t) => ~t.stillActive

\* the last reconciliation saw a GOLDEN signal for the symbol of a closed entry
C5_Witness ==
    /\ lastOp = "reconcile"
    /\ \E t \in Entries : HasExit(t) /\ IsGoldenNow(t.symbol)

\* C6: maxGainPct of an entry is at least every pnl a reconciliation computed
\* for it while it was open, the closing one included.
C6_MaxGainBoundsPnl ==
    \A t \in Entries : t.maxGainPct >= peakPnl[t.symbol]

\* an entry whose gain fell back below its peak
C6_Witness ==
    \E t \in Entries : /\ peakPnl[t.symbol] > 0
                       /\ Pnl(t.lastPrice, t.entryPrice) < peakPnl[t.symbol]

\* C7: after a reconciliation neither the ledger in memory nor the persisted
\* ledger record holds an entry whose signalTime is 24 hours or more old.
C7_PurgedAfterReconcile ==
    lastOp = "reconcile" =>
        \A t \in Entries \cup Persisted : now - t.signalTime < TRACKER_EXPIRY_MS

\* the last reconciliation dropped an entry
C7_Witness == lastOp = "reconcile" /\ purged

\* C8 as stated: in every state the ledger list holds no entry whose age has
\* reached 24 hours.
C8_NeverStale ==
    \A t \in Entries : now - t.signalTime < TRACKER_EXPIRY_MS

\* C8 amended: right after a load and right after a reconciliation the ledger
\* list holds no entry whose age has reached 24 hours.
C8_FreshAfterLoadOrReconcile ==
    lastOp \in {"load", "reconcile"} =>
        \A t \in Entries : now - t.signalTime < TRACKER_EXPIRY_MS

\* a load kept an entry one slot short of the retention window
C8_Witness ==
    /\ lastOp = "load"
    /\ \E t \in Entries : now - t.signalTime = TRACKER_EXPIRY_MS - 1

C10_SuccessCountedOnClose ==
    [][(revision = 2 /\ lastOp' = "reconcile") =>
        loadGoldenStats(localStorage').successCount =
            loadGoldenStats(localStorage).successCount
            + Cardinality({i \in DOMAIN trackedGoldens :
                 /\ ~HasExit(trackedGoldens[i])
                 /\ \E j \in DOMAIN trackedGoldens' :
                        /\ trackedGoldens'[j].symbol = trackedGoldens[i].symbol
                        /\ HasExit(trackedGoldens'[j])})]_vars

\* the symbols for which the reconciliation of this step sees a GOLDEN signal
\* and the ledger holds no entry
NewGoldens ==
    {s \in Symbols :
        /\ IsGolden(Signals(revision, tickers', vwapStore', firstSeenTimes', now'), s)
        /\ ~HasEntry(trackedGoldens, s)}

EntriesOf(list, s) == {i \in DOMAIN list : list[i].symbol = s}

\* C11: a reconciliation that sees a GOLDEN signal for a symbol without a ledger
\* entry leaves exactly one entry for it, with entryPrice the current price of
\* the ticker and signalTime the time of the reconciliation, and (revision 2)
\* adds one to totalSignals for each such symbol.
C11_EntryCreatedAtReconcileTime ==
    [][lastOp' = "reconcile" =>
        /\ \A s \in NewGoldens :
              /\ Cardinality(EntriesOf(trackedGoldens', s)) = 1
              /\ \A j \in EntriesOf(trackedGoldens', s) :
                    /\ trackedGoldens'[j].entryPrice = PriceIn(tickers', s)
                    /\ trackedGoldens'[j].signalTime = now'
        /\ revision = 2 =>
              loadGoldenStats(localStorage').totalSignals =
                  loadGoldenStats(localStorage).totalSignals + Cardinality(NewGoldens)]_vars

\* the entries of the ledger that the reconciliation of this step closes
ClosedNow ==
    {i \in DOMAIN trackedGoldens :
        /\ ~HasExit(trackedGoldens[i])
        /\ \E j \in DOMAIN trackedGoldens' :
               /\ trackedGoldens'[j].symbol = trackedGoldens[i].symbol
               /\ HasExit(trackedGoldens'[j])}

\* C12: except in a reset, totalSignals and successCount never decrease;
\* totalSignals changes only in a reconciliation, by one for each entry it
\* creates, and successCount changes only in a reconciliation that closes an
\* entry.
C12_CountersMonotonic ==
    [][lastOp' # "reset" =>
        LET old == loadGoldenStats(localStorage)
            new == loadGoldenStats(localStorage')
        IN  /\ new.totalSignals =
                  old.totalSignals + (IF lastOp' = "reconcile" /\ revision = 2
                                      THEN Cardinality(NewGoldens) ELSE 0)
            /\ new.successCount >= old.successCount
            /\ new.successCount # old.successCount =>
                  lastOp' = "reconcile" /\ ClosedNow # {}]_vars

\* two signals have been counted and the second entry is in the ledger
C12_Witness ==
    /\ lastOp = "reconcile"
    /\ trackedGoldens # <<>>
    /\ loadGoldenStats(localStorage).totalSignals >= 2

\* C13: a reconciliation whose ticker list lacks the symbol of an open entry
\* keeps the entry with every field unchanged while its age is under 24
\* hours, and drops it once its age has reached 24 hours.
C13_MissingTickerFreezesEntry ==
    [][lastOp' = "reconcile" =>
        \A i \in DOMAIN trackedGoldens :
            LET t == trackedGoldens[i] IN
            (~HasExit(t) /\ FindIdx(tickers', t.symbol) = 0) =>
                IF now' - t.signalTime < TRACKER_EXPIRY_MS
                THEN /\ \E j \in DOMAIN trackedGoldens' : trackedGoldens'[j] = t
                     /\ Cardinality(EntriesOf(trackedGoldens', t.symbol)) = 1
                ELSE ~HasEntry(trackedGoldens', t.symbol)]_vars

\* the last reconciliation met an open entry whose symbol the ticker list lacks
C13_Witness ==
    /\ lastOp = "reconcile"
    /\ \E t \in Entries : ~HasExit(t) /\ t.stillActive /\ FindIdx(tickers, t.symbol) = 0

----------------------------------------------------------------------------
(* Properties of the alert trigger, checked under SpecAlert *)

\* the call of sendGoldenSignalAlert the last step made, when it made one
LastCall == lastCalls[1]

CalledDispatcher == lastOp' = "send" /\ lastCalls' # <<>>

\* C16 (as stated): a call of the dispatcher for a signal whose kind is other
\* than GOLDEN or EXIT posts no message to any recipient and records no
\* dedup mark.
C16_OnlyGoldenAndExit ==
    [][(CalledDispatcher /\ lastCalls'[1].type \notin {"GOLDEN", "EXIT"})
          => /\ ~lastCalls'[1].posted
             /\ ~lastCalls'[1].marked
             /\ localStorage' = localStorage]_vars

\* C16 (amended): a call of the dispatcher for a signal whose kind is other
\* than GOLDEN, CONVERGENCE or EXIT posts no message to any recipient and
\* records no dedup mark, whatever the settings and the delivery outcome.
C16_AllowList ==
    [][(CalledDispatcher /\ lastCalls'[1].type \notin {"GOLDEN", "CONVERGENCE", "EXIT"})
          => /\ ~lastCalls'[1].posted
             /\ ~lastCalls'[1].marked
             /\ localStorage' = localStorage]_vars

\* a MOMENTUM call was made with alerts enabled, a token and a recipient set
C16_Witness ==
    /\ lastOp = "send"
    /\ lastCalls # <<>>
    /\ LastCall.type = "MOMENTUM"
    /\ loadTelegramConfig(localStorage) =
           [botToken |-> "token", chatId |-> "chat", enabled |-> TRUE]
    /\ ~LastCall.posted

\* the symbol has a signal of this kind among the signals of the next state
HasKindNext(s, kind) ==
    LET sigs == Signals(revision, tickers', vwapStore', firstSeenTimes', now')
    IN  \E i \in DOMAIN sigs : sigs[i].symbol = s /\ sigs[i].type = kind

\* C17: in an evaluation cycle with the alerts enabled, a symbol whose
\* dispatch failed for every recipient is not marked as alerted, and a symbol
\* whose latest dispatch failed and that still has that signal kind in this
\* cycle is dispatched again.
C17_MarkOnSuccessRetryOnFailure ==
    [][(lastOp' = "reconcile" /\ tgConfig.enabled) =>
        \A s \in Symbols :
           /\ \A k \in DOMAIN lastCalls' :
                 (lastCalls'[k].symbol = s /\ ~lastCalls'[k].sent)
                    => s \notin (alertedRef' \cup exitAlertedRef')
           /\ (/\ delivery[s].type # "NONE"
               /\ ~delivery[s].sent
               /\ HasKindNext(s, delivery[s].type))
                 => \E k \in DOMAIN lastCalls' :
                       /\ lastCalls'[k].symbol = s
                       /\ lastCalls'[k].type = delivery[s].type]_vars

\* C18: a call of sendGoldenSignalAlert for a symbol that was already
\* successfully alerted in the same UTC calendar day posts no message.
C18_OncePerDay ==
    [][(CalledDispatcher /\ wasAlertedToday(localStorage, lastCalls'[1].symbol, now))
          => ~lastCalls'[1].posted]_vars

\* the fetches of a cycle that have been issued and have not settled
InFlight(k) ==
    IF cycles[k].pc = "fetch"
    THEN ChunkLength(effects[cycles[k].effect].n, cycles[k].i) - cycles[k].settled
    ELSE 0

\* the symbols of the chunk a cycle is at (or was last at) that have levels
\* to give
Available(k) ==
    {r \in (cycles[k].i + 1)..Min(cycles[k].i + CHUNK_SIZE, effects[cycles[k].effect].n) :
        r \notin Unavailable}

\* C34: a cycle never has more than 15 level fetches in flight; it issues
\* the fetches of a chunk only at its start or once every fetch of the chunk
\* before has settled and the delay has elapsed; a fetch that fails neither
\* stops the other fetches of the chunk from giving their levels nor ends
\* the cycle.
C34_ChunkedFetches ==
    /\ [](\A k \in DOMAIN cycles : InFlight(k) <= 15)
    /\ [][\A k \in DOMAIN cycles :
            /\ (InFlight(k) = 0 /\ cycles'[k].pc = "fetch") => cycles[k].pc = "delay"
            /\ (cycles[k].pc = "fetch" /\ cycles'[k].pc # "fetch") =>
                  /\ \A r \in Available(k) : cycles'[k].pending[r] # 0
                  /\ cycles'[k].pc = "done" =>
                        cycles[k].i + CHUNK_SIZE >= effects[cycles[k].effect].n]_vars

\* a cycle is fetching its second chunk after a first chunk in which the
\* fetch of one symbol gave nothing and the others gave their levels
C34_Witness ==
    \E k \in DOMAIN cycles :
        /\ cycles[k].pc = "fetch"
        /\ cycles[k].i = CHUNK_SIZE
        /\ cycles[k].settled = 0
        /\ cycles[k].pending[2] = 0
        /\ cycles[k].pending[1] # 0
        /\ cycles[k].pending[15] # 0

\* C35: a commit of a cycle to the level store never removes the levels an
\* earlier commit stored for a symbol.
C35_StoredLevelsKept ==
    [][\A r \in 1..MaxRank :
          levelStore.seen[r] # 0 => levelStore'.seen[r] # 0]_vars

\* C36: once a first-seen time is stored for a symbol, no later commit
\* changes it.
C36_FirstSeenKept ==
    [][\A r \in 1..MaxRank :
          levelStore.seen[r] # 0 => levelStore'.seen[r] = levelStore.seen[r]]_vars

\* C33: a level call made while a cached result for the symbol is unexpired,
\* or while another call for the symbol is in flight, sends no request to
\* the candle source; a null result is not cached.
C33_OneRequestPerWindow ==
    [][/\ Len(sourceRequests') > Len(sourceRequests) =>
             /\ ~IsCachedLevel(vwapCache, fetchClock)
             /\ \A c \in Callers : levelCalls[c].pc = "idle"
       /\ (\E c \in Callers : levelCalls'[c].result = "null" /\ levelCalls[c].pc = "klines")
             => vwapCache' = vwapCache]_vars

\* C32: the price history of every ledger entry has at most 144 points and
\* (length - 1) x 10 minutes never exceeds the age of the entry; a
\* reconciliation appends at most one point to an entry, and only when more
\* than 10 minutes have passed since the time slot of its last point.
C32_HistoryCadence ==
    /\ [](\A i \in DOMAIN trackedGoldens :
            /\ Len(trackedGoldens[i].history) <= 144
            /\ Len(trackedGoldens[i].history) - 1 <= now - trackedGoldens[i].signalTime)
    /\ [][\A i \in DOMAIN trackedGoldens, j \in DOMAIN trackedGoldens' :
            (/\ trackedGoldens'[j].symbol = trackedGoldens[i].symbol
             /\ trackedGoldens'[j].signalTime = trackedGoldens[i].signalTime)
            => LET old == trackedGoldens[i].history
                   new == trackedGoldens'[j].history
               IN  /\ Len(new) \in {Len(old), Len(old) + 1}
                   /\ SubSeq(new, 1, Len(old)) = old
                   /\ Len(new) = Len(old) + 1 =>
                         now' - (trackedGoldens[i].signalTime + (Len(old) - 1)) > 1]_vars

\* an entry followed for a day: 143 points at the age of 143 slots
C32_Witness ==
    /\ lastOp = "reconcile"
    /\ \E i \in DOMAIN trackedGoldens :
          /\ Len(trackedGoldens[i].history) = 143
          /\ now - trackedGoldens[i].signalTime = 143

\* the places of the chat id text where the id of a recipient starts: a
\* character that is neither comma nor blank, the first such since the last
\* comma
Recipients ==
    {i \in DOMAIN dispatch.chatId :
        /\ dispatch.chatId[i] \notin {",", " "}
        /\ \A j \in 1..(i - 1) :
              dispatch.chatId[j] \notin {",", " "}
                 => \E k \in (j + 1)..(i - 1) : dispatch.chatId[k] = ","}

\* C31: a dispatch makes one request for every configured recipient, whatever
\* becomes of the other requests, and reports success exactly when at least
\* one recipient accepted; with an empty token or no recipient it makes no
\* request and reports failure.
C31_EveryRecipientTried ==
    dispatch.call.done =>
        IF dispatch.botToken = "" \/ Recipients = {}
        THEN dispatch.call.requests = <<>> /\ ~dispatch.call.ok
        ELSE /\ Len(dispatch.call.requests) = Cardinality(Recipients)
             /\ Len(dispatch.call.results) = Cardinality(Recipients)
             /\ dispatch.call.ok <=>
                   \E i \in DOMAIN dispatch.call.results : dispatch.call.results[i]

\* two recipients, the first request failed, the second was accepted and the
\* dispatch reported success
C31_Witness ==
    /\ dispatch.call.done
    /\ Len(dispatch.call.requests) = 2
    /\ ~dispatch.call.results[1]
    /\ dispatch.call.results[2]
    /\ dispatch.call.ok

\* the cycles that run on a ticker list older than the current one
StaleCycles ==
    {k \in DOMAIN cycles :
        cycles[k].pc # "done" /\ effects[cycles[k].effect].gen # candidates.gen}

\* C26: once a new ticker set has arrived while a cycle is running, that
\* older cycle issues the fetches of no further chunk and commits no further
\* update to the level store.
C26_StaleCycleCancelled ==
    [][\A k \in StaleCycles :
          /\ cycles'[k].commits = cycles[k].commits
          /\ ~(cycles[k].pc = "delay" /\ cycles'[k].pc = "fetch")]_vars

\* C27: at any time the fetches of at most one cycle are in flight.
C27_OneCycleInFlight ==
    Cardinality({k \in DOMAIN cycles : cycles[k].pc = "fetch"}) <= 1

\* the symbols for which the reconciliation of this step sees a GOLDEN signal
\* while the ledger holds only closed entries for them, none of them expired
ClosedGoldens ==
    {s \in Symbols :
        /\ IsGolden(Signals(revision, tickers', vwapStore', firstSeenTimes', now'), s)
        /\ EntriesOf(trackedGoldens, s) # {}
        /\ \A i \in EntriesOf(trackedGoldens, s) :
              /\ HasExit(trackedGoldens[i])
              /\ NotExpired(trackedGoldens[i], now')}

\* C28: a reconciliation that sees a GOLDEN signal for a symbol whose only
\* ledger entry is closed (exitTime set, not expired) creates a new open
\* entry for the symbol and (revision 2) adds one to totalSignals.
C28_NewEntryAfterClose ==
    [][lastOp' = "reconcile" =>
        \A s \in ClosedGoldens :
            /\ \E j \in EntriesOf(trackedGoldens', s) : ~HasExit(trackedGoldens'[j])
            /\ revision = 2 =>
                  loadGoldenStats(localStorage').totalSignals >
                      loadGoldenStats(localStorage).totalSignals]_vars

\* C37: a reconciliation leaves a closed entry (exitTime set) with every field
\* unchanged, whatever the price and the signals of its symbol are, while its
\* age is under 24 hours, and drops it once its age has reached 24 hours; no
\* entry that was closed is open afterwards.
C37_ClosedEntryFrozen ==
    [][lastOp' = "reconcile" =>
        \A i \in DOMAIN trackedGoldens :
            LET t == trackedGoldens[i] IN
            HasExit(t) =>
                /\ \A j \in EntriesOf(trackedGoldens', t.symbol) :
                      trackedGoldens'[j].signalTime = t.signalTime =>
                          trackedGoldens'[j] = t
                /\ (\E j \in DOMAIN trackedGoldens' : trackedGoldens'[j] = t)
                      <=> NotExpired(t, now')]_vars

\* the last reconciliation kept a closed entry while the ticker of its symbol
\* had another price than the entry's last one and its signal was GOLDEN
C37_Witness ==
    /\ lastOp = "reconcile"
    /\ \E t \in Entries :
          /\ HasExit(t)
          /\ t.exitTime < now
          /\ IsGoldenNow(t.symbol)
          /\ FindIdx(tickers, t.symbol) # 0
          /\ tickers[FindIdx(tickers, t.symbol)].priceUsd # t.lastPrice

\* C38: after handleResetTracker the ledger in memory is empty and the two
\* persisted records are cleared: read back at once, the store gives an empty
\* ledger and the counters at zero.
C38_ResetClearsPersisted ==
    lastOp = "reset" =>
        /\ trackedGoldens = <<>>
        /\ loadTrackedGoldens(localStorage, now) = <<>>
        /\ loadGoldenStats(localStorage).totalSignals = 0
        /\ loadGoldenStats(localStorage).successCount = 0

\* C39: under every order of initCexWebSocket and subscribeToTicker calls,
\* unsubscribe calls and close and reconnection events, at most one socket is
\* open at a time, the module's reference ws designates the open socket, and
\* an update of the stream calls each registered listener exactly once.
C39_OneLiveSocket ==
    /\ Cardinality(OpenSockets) <= 1
    /\ \A s \in OpenSockets : ws = s
    /\ delivered # NoCalls =>
          \A l \in AllCallbacks :
              (\/ \E i \in DOMAIN listeners : listeners[i] = l
               \/ \E i \in DOMAIN tickerSubscriptions : tickerSubscriptions[i] = l)
                  => delivered[l] = 1

\* a render of DecisionBuyAi took place in this step (its props changed or
\* the page was loaded) and the classifier did not throw
Reconciled ==
    /\ lastOp # "crash"
    /\ lastOp' \in {"reconcile", "crash"}
    /\ ~(revision = 2 /\ SignalsThrow2(tickers', vwapStore', firstSeenTimes', now'))

\* C22: a reconciliation during which the writes to the persistent store
\* fail still completes: the component stays alive and its in-memory ledger
\* holds the reconciled entries.
C22_WriteFailureNotFatal ==
    [][(Reconciled /\ writeFails) =>
          /\ lastOp' = "reconcile"
          /\ trackedGoldens' =
                Tracker(revision, trackedGoldens,
                        Signals(revision, tickers', vwapStore', firstSeenTimes', now'),
                        tickers', localStorage, now').updated]_vars

\* the most recent Monday 00:00 UTC: the latest day, today included, that is
\* a Monday
RecentMonday == CHOOSE d \in (today - 6)..today : getUTCDay(d) = 1

\* the candles that are completed (all but the last) and opened since Monday
StructuralCandles ==
    {i \in 1..(Len(klines) - 1) : klines[i].time >= RecentMonday}

StructuralVwaps == {DailyVwap(klines[i]) : i \in StructuralCandles}

\* C24: the normalizedSlope of a computed level set is 0 whenever the
\* 14-day average true range is 0 and whenever fewer candles than the slope
\* lookback are available.
C24_SlopeZeroWithoutVolatility ==
    vwapData.computed =>
       ((currentAtr14(klines) = 0 \/ Len(klines) - 1 < SLOPE_LOOKBACK)
           => vwapData.normalizedSlope = 0)

\* levels computed from candles whose last 14 true ranges are all 0
C24_Witness ==
    /\ lastOp = "levels"
    /\ vwapData.computed
    /\ currentAtr14(klines) = 0
    /\ vwapData.normalizedSlope = 0

\* a step that computes the levels again in the same day over candles that
\* differ from the former ones in the last candle only
LiveRecomputation ==
    /\ vwapData.computed
    /\ vwapData'.computed
    /\ today' = today
    /\ Len(klines') = Len(klines)
    /\ klines' # klines
    /\ \A i \in 1..(Len(klines) - 1) : klines'[i] = klines[i]

C29_StructuralMaxMin ==
    vwapData.computed =>
       /\ vwapData.mid = DailyVwap(klines[Len(klines)])
       /\ IF StructuralCandles = {}
          THEN vwapData.max = vwapData.mid /\ vwapData.min = vwapData.mid
          ELSE /\ vwapData.max \in StructuralVwaps
               /\ vwapData.min \in StructuralVwaps
               /\ \A v \in StructuralVwaps : vwapData.min <= v /\ v <= vwapData.max

\* levels computed on a Sunday from a week whose completed candles differ,
\* with the last candle below all of them
C29_Witness ==
    /\ vwapData.computed
    /\ Cardinality(StructuralCandles) = 6
    /\ vwapData.max > vwapData.min
    /\ vwapData.mid < vwapData.min

\* C23: whatever text is stored under a key, absent, not JSON or JSON of
\* another shape, the cold-start read of that key returns a well-formed
\* value: the Telegram settings are an object with token, chat ids and
\* enabled flag, the stats an object with its four counters, the ledger an
\* array and the audio preference a boolean.
C23_SafeDefaults ==
    lastOp = "read" =>
       IF stored.key \in {CONFIG_KEY, STAT_KEY}
       THEN /\ restored.isObject
            /\ restored.fields = IF stored.key = CONFIG_KEY THEN ConfigFields
                                ELSE StatsFields
       ELSE IF stored.key = GOLDEN_TRACKER_KEY THEN restored.isArray
       ELSE restored.isBoolean

\* C21: the conversion of a response that holds a malformed record does not
\* raise and returns exactly what it returns for the well-formed records of
\* that response: the malformed record is skipped, the others are kept.
C21_MalformedRecordSkipped ==
    lastOp = "parse" =>
       /\ ~parsed.threw
       /\ parsed.tickers =
             ConvertTickers(SelectSeq(response, WellFormed), parsed.exchange).tickers

\* caller c's call has just ended in the catch of fetchKuCoinTickers: both
\* sources failed
BothFailed(c) == fetchers[c].pc = "secondary" /\ fetchers'[c].path = "fallback"

\* C19 (as stated): when both sources fail in one call, the call returns the
\* cached list only if the cache entry is still within its TTL, and reports
\* an error otherwise.
C19_CacheWithinTtlOrError ==
    [][\A c \in Callers : BothFailed(c) =>
          fetchers'[c].result = IF IsFresh(cache, fetchClock)
                                THEN Resolved(cache.data) ELSE Rejected]_vars

\* C19 (amended): when both sources fail in one call and a list was cached
\* before, the call returns that list whatever the age of the cache entry,
\* past its TTL included, and reports no error.
C19_CacheWhateverItsAge ==
    [][\A c \in Callers : (BothFailed(c) /\ cache.set) =>
          fetchers'[c].result = Resolved(cache.data)]_vars

\* a call that found both sources failing returned a non-empty list cached
\* longer ago than the TTL
C19_Witness ==
    \E c \in Callers :
       /\ lastOp = "fetch"
       /\ fetchers[c].path = "fallback"
       /\ cache.set
       /\ cache.data # <<>>
       /\ fetchClock - cache.ts >= CACHE_TTL
       /\ fetchers[c].result = Resolved(cache.data)

\* C20: no call of fetchCexTickers ends in an error; a call that finds both
\* sources failing returns the last cached list, or the empty list when
\* nothing was cached, and leaves the cache as it was.
C20_NeverRaises ==
    [][\A c \in Callers :
          /\ fetchers'[c].result.kind # "error"
          /\ BothFailed(c) =>
                /\ fetchers'[c].result.kind = "value"
                /\ fetchers'[c].result.data = IF cache.set THEN cache.data ELSE <<>>
                /\ cache' = cache]_vars

\* both sources failed with nothing cached and the caller got the empty
\* list; the other caller's call had both sources failing with a list cached
C20_Witness ==
    \E c, d \in Callers :
       /\ lastOp = "fetch"
       /\ fetchers[c].path = "fallback"
       /\ fetchers[c].result = Resolved(<<>>)
       /\ fetchers[d].path = "fallback"
       /\ fetchers[d].result.data # <<>>
       /\ cache.set

\* C2: while the alerts have been enabled in every cycle, the number of GOLDEN
\* alert dispatches for a symbol equals its number of runs of consecutive
\* GOLDEN cycles: a run of three cycles gives one dispatch, and a later run,
\* after a cycle in which the symbol was not GOLDEN, gives one more.
C2_OneDispatchPerGoldenRun ==
    enabledThroughout => \A s \in Symbols : dispatched[s] = goldenRuns[s]

\* a symbol in the third cycle of its second GOLDEN run
C2_Witness ==
    /\ enabledThroughout
    /\ \E s \in Symbols : /\ goldenRuns[s] = 2
                           /\ runLength[s] = 3
                           /\ dispatched[s] = 2

----------------------------------------------------------------------------
(* Properties of the classifier and of one reconciliation, checked under
   SpecScenario *)

\* ticker A at 110 with levels max 100, min 90, mid 95, normalizedSlope 0.10,
\* and no first-seen time older than this cycle
ScenarioInputs ==
    /\ tickers = <<[symbol |-> "A", priceUsd |-> 11000]>>
    /\ vwapStore = [s \in {"A"} |->
                      [max |-> 10000, min |-> 9000, mid |-> 9500, normalizedSlope |-> 10]]
    /\ \A s \in DOMAIN firstSeenTimes : firstSeenTimes[s] = now

ScenarioSignal == Classify1(tickers[1], vwapStore["A"], firstSeenTimes, now)

\* the price of the ticker lies strictly between mid and max
BetweenMidAndMax ==
    /\ tickers[1].priceUsd > vwapStore["A"].mid
    /\ tickers[1].priceUsd < vwapStore["A"].max

\* C30 (as stated): the classifier returns MOMENTUM for every ticker whose
\* price lies strictly between mid and max and whose normalized slope is
\* positive, small slopes at or below 0.05 included (neither the GOLDEN rule,
\* which needs a price above max, nor the EXIT rule, which needs a negative
\* slope, matches such a ticker).
C30_MomentumOnPositiveSlope ==
    (BetweenMidAndMax /\ vwapStore["A"].normalizedSlope > 0)
        => ScenarioSignal.type = "MOMENTUM"

\* C30 (amended): for a ticker whose price lies strictly between mid and max
\* the classifier returns MOMENTUM exactly when the normalized slope is above
\* 0.05; a positive slope at or below 0.05 gives no MOMENTUM signal.
C30_MomentumAboveThreshold ==
    BetweenMidAndMax =>
        (ScenarioSignal.type = "MOMENTUM" <=> vwapStore["A"].normalizedSlope > 5)

\* a ticker between mid and max with a slope of 0.10 was classified MOMENTUM
\* and the tracker, which follows GOLDEN signals only, kept the ledger empty
C30_Witness ==
    /\ lastOp = "reconcile"
    /\ BetweenMidAndMax
    /\ vwapStore["A"].normalizedSlope = 10
    /\ ScenarioSignal.type = "MOMENTUM"
    /\ trackedGoldens = <<>>

====
